---- MODULE Spec2Model ----
(***************************************************************************)
(* Peer-to-peer chunked file transfer of frontend/src/pages/               *)
(* peerConnection.tsx (component PeerApp): two browser peers, the PeerJS   *)
(* data connections between them, the key exchange, sendFile's chunk loop  *)
(* and handleReceivedData's reassembly.                                    *)
(***************************************************************************)
EXTENDS Integers, Sequences, FiniteSets, TLC

\* ------------------------------------------------------------------ bounds
\* CHUNK_SIZE is 256 * 1024 in the source; the model scales it to 2 bytes so
\* that files of a few bytes span several chunks.
CHUNK_SIZE == 2
\* AES-GCM appends a 128-bit authentication tag to every ciphertext.
TagBytes == 16
\* Longest file (bytes) a peer can select in the protocol specifications.
MaxLen == 3
\* Longest file in the specifications without encryption.
MaxLongLen == 5
\* User actions (selections and clicks that take effect) in one behaviour.
MaxUserActions == 3
\* Longest payload and largest chunk size of the codec specification.
MaxCodecLen == 21
MaxChunk == 3
\* The receiver on its own: slots per transfer and messages in flight.
MaxSlots == 3
MaxInbound == 4
\* Metrics on their own: latencies per transfer, bytes, milliseconds.
MaxLatencies == 22
MaxShortList == 3
ManyLatencies == 200
MaxBytes == 3
MaxElapsedMs == 3
MiB == 1048576
\* Decryption on its own: slots per transfer and chunk messages in flight.
MaxCipherSlots == 2
MaxCipherMsgs == 2
\* Chunk messages in flight on each of two connections to one peer.
MaxPerConn == 2
PaceMs == 10

Peers == {"A", "B"}

Other(p) == IF p = "A" THEN "B" ELSE "A"

\* null of the source: a record no value of the model is equal to.
Null == [isNull |-> TRUE]

\* ------------------------------------------------------------------ codec
\* Math.ceil(byteLength / chunkSize)
TotalChunksBug(n, c) == (n \div c) + 1

TotalChunks(n, c) == (n + c - 1) \div c

Min(a, b) == IF a < b THEN a ELSE b

\* arrayBuffer.slice(start, end): bytes start .. end-1 (0-based), clamped.
BufSlice(buf, start, end) ==
  LET s == Min(start, Len(buf))
      e == Min(end, Len(buf))
  IN  IF e <= s THEN <<>> ELSE SubSeq(buf, s + 1, e)

\* A plausible slip: the slice ends one byte early.
ChunkSliceShort(buf, i, c) == BufSlice(buf, i * c, Min(i * c + c, Len(buf)) - 1)

\* Loop body of sendFile: start = i * CHUNK_SIZE,
\* end = min(start + CHUNK_SIZE, byteLength), slice(start, end).
ChunkSlice(buf, i, c) == BufSlice(buf, i * c, Min(i * c + c, Len(buf)))

RECURSIVE Concat(_)
Concat(parts) ==
  IF parts = <<>> THEN <<>> ELSE Head(parts) \o Concat(Tail(parts))

\* A slot of new Array(totalChunks) that was never written.
Hole == [hole |-> TRUE]

\* What the Blob constructor makes of an unwritten slot: the 9 characters of
\* the string "undefined", here 9 bytes no payload contains.
HoleBytes == [j \in 1..9 |-> 0 - 1]

\* Bytes a chunk's data contributes to a Blob: the bytes themselves for plain
\* data; for a ciphertext, bytes that are not the plaintext (plus the tag).
RawBytes(d) ==
  IF d = Hole THEN HoleBytes
  ELSE IF d.enc THEN [j \in 1..(Len(d.bytes) + TagBytes) |-> 0 - 2]
  ELSE d.bytes

\* byteLength of a chunk's data
ByteLength(d) == IF d.enc THEN Len(d.bytes) + TagBytes ELSE Len(d.bytes)

\* A plausible slip: parts concatenated in reverse slot order.
BlobOfReversed(chunks) ==
  Concat([k \in 1..Len(chunks) |-> RawBytes(chunks[Len(chunks) + 1 - k])])

\* new Blob(chunks): the parts concatenated in array (index) order.
BlobOf(chunks) == Concat([k \in 1..Len(chunks) |-> RawBytes(chunks[k])])

PlainData(bytes) == [enc |-> FALSE, bytes |-> bytes]

\* new Array(totalChunks)
NewArray(n) == [k \in 1..n |-> Hole]

\* A plausible slip: chunks.push(value), the slots filled in arrival order.
ArrayPush(arr, index, value) ==
  LET holes == {k \in 1..Len(arr) : arr[k] = Hole} IN
  IF holes = {} THEN Append(arr, value)
  ELSE [arr EXCEPT ![CHOOSE k \in holes : \A j \in holes : k <= j] = value]

\* chunks[index] = value on a JavaScript array: writing past the end grows
\* the array, the slots in between stay unwritten.
ArraySet(arr, index, value) ==
  [k \in 1..(IF index + 1 > Len(arr) THEN index + 1 ELSE Len(arr)) |->
     IF k = index + 1 THEN value
     ELSE IF k <= Len(arr) THEN arr[k] ELSE Hole]

\* ------------------------------------------------------------------ state
VARIABLES
  connectionStatus,    \* useState: "disconnected" | "connecting" | "connected"
  isTransferring,      \* useState
  transferProgress,    \* useState: a percentage, kept as the fraction num/den
  metrics,             \* useState: the metrics shown, or Null
  encryptionEnabled,   \* useState
  keyExchangeComplete, \* useState
  inputFile,           \* useState: the selected file, or Null
  connectionRef,       \* useRef: id of the current DataConnection, 0 for null
  encryptionKeyRef,    \* useRef: the CryptoKey, or Null
  receivingFile,       \* useRef: the inbound transfer, or Null
  sendingMetrics,      \* useRef: metrics of the outbound transfer, or Null
  sendTasks,           \* activations of sendFile, each at its await point
  keyTasks,            \* pending initializeEncryption / importKey promises
  decryptTasks,        \* chunk handlers awaiting FileEncryption.decrypt
  conns,               \* the DataConnections ever created, with their queues
  downloads,           \* files handed to downloadFile, in order
  arrivalLog,          \* history: chunkIndex of the chunks stored since the last file-start
  userActions,         \* number of user actions (clicks, selections) so far
  codec,               \* the codec specification's payload, slices and slots
  calc                 \* the metrics specification's inputs and results

peerVars == <<connectionStatus, isTransferring, transferProgress, metrics,
              encryptionEnabled, keyExchangeComplete, inputFile,
              connectionRef, encryptionKeyRef, receivingFile, sendingMetrics,
              sendTasks, keyTasks, decryptTasks, conns, downloads, arrivalLog,
              userActions>>

vars == <<peerVars, codec, calc>>

\* A percentage value/1 and the percentage (a / b) * 100.
Percent(a, b) == [num |-> a * 100, den |-> b]

Whole(v) == [num |-> v, den |-> 1]

\* The files a user can pick: peer p's file of length len has a name and
\* bytes no other file has (len <= 9).
FileId(p, len) == (IF p = "A" THEN 0 ELSE 10) + len

FileOf(p, len) ==
  [name |-> FileId(p, len),
   bytes |-> [j \in 1..len |-> FileId(p, len) * 10 + j]]

\* One file of every length 0..MaxLen (up to two chunks)
Files(p) == {FileOf(p, len) : len \in 0..MaxLen}

\* and one of every length 0..MaxLongLen (up to three chunks).
LongFiles(p) == {FileOf(p, len) : len \in 0..MaxLongLen}

\* State of PeerApp's hooks with no connection made yet, the encryption
\* checkboxes as in encs and the files selected as in files.
InitConfigured(encs, files) ==
  /\ connectionStatus = [p \in Peers |-> "disconnected"]
  /\ isTransferring = [p \in Peers |-> FALSE]
  /\ transferProgress = [p \in Peers |-> Whole(0)]
  /\ metrics = [p \in Peers |-> Null]
  /\ encryptionEnabled = encs
  /\ keyExchangeComplete = [p \in Peers |-> FALSE]
  /\ inputFile = files
  /\ connectionRef = [p \in Peers |-> 0]
  /\ encryptionKeyRef = [p \in Peers |-> Null]
  /\ receivingFile = [p \in Peers |-> Null]
  /\ sendingMetrics = [p \in Peers |-> Null]
  /\ sendTasks = [p \in Peers |-> <<>>]
  /\ keyTasks = [p \in Peers |-> {}]
  /\ decryptTasks = [p \in Peers |-> {}]
  /\ conns = <<>>
  /\ downloads = [p \in Peers |-> <<>>]
  /\ arrivalLog = [p \in Peers |-> <<>>]
  /\ userActions = 0

NoCodec == [phase |-> "off"]

NoCalc == [phase |-> "off"]

\* First render of PeerApp on both peers: useState(true) for encryption,
\* useState(null) for the file.
Init ==
  /\ InitConfigured([p \in Peers |-> TRUE], [p \in Peers |-> Null])
  /\ codec = NoCodec /\ calc = NoCalc

\* ------------------------------------------------------------ connections
\* A DataConnection between init (who called peer.connect) and the other
\* peer. accepted: the acceptor's peer.on('connection') ran; opened: the
\* initiator's conn.on('open') ran; failed: the attempt failed before opening;
\* closed: the sides on which the connection is closed; q[p]: the messages in
\* flight to p, oldest first.
NewConn(p) ==
  [init |-> p, accepted |-> FALSE, opened |-> FALSE, failed |-> FALSE,
   closed |-> {}, q |-> [r \in Peers |-> <<>>]]

ConnIds == 1..Len(conns)

\* p has run setupConnectionHandlers on connection c.
HasHandlers(c, p) ==
  IF conns[c].init = p THEN conns[c].opened ELSE conns[c].accepted

\* conn.send(msg) by peer from: queued for the other side while the connection
\* is open, dropped (PeerJS reports an error event, nothing is thrown) once it
\* is closed.
ConnSend(cs, c, from, msg) ==
  IF cs[c].closed = {}
  THEN [cs EXCEPT ![c].q[Other(from)] = Append(@, msg)]
  ELSE cs

\* conn.close() by peer p: the connection is closed on p's side and whatever
\* was still in flight to p is lost.
ConnClose(cs, c, p) ==
  [cs EXCEPT ![c].closed = @ \cup {p}, ![c].q[p] = <<>>]

\* The conn.on('close') handler installed by setupConnectionHandlers, as the
\* new values of the four things it assigns.
CloseHandler(p) ==
  /\ connectionStatus' = [connectionStatus EXCEPT ![p] = "disconnected"]
  /\ connectionRef' = [connectionRef EXCEPT ![p] = 0]
  /\ encryptionKeyRef' = [encryptionKeyRef EXCEPT ![p] = Null]
  /\ keyExchangeComplete' = [keyExchangeComplete EXCEPT ![p] = FALSE]

\* A CryptoKey: generateKey gives a fresh key on every call, and
\* initializeEncryption is called once per peer and connection.
KeyOf(p, c) == [by |-> p, conn |-> c]

InitTask(c) == [kind |-> "init", conn |-> c, pc |-> "gen"]

\* ------------------------------------------------------------- UI actions
\* Every action of the user counts against the budget MaxUserActions.
UserActs == userActions < MaxUserActions /\ userActions' = userActions + 1

\* handleFileChange: the user picks file f.
handleFileChange(p, f) ==
  /\ UserActs
  /\ inputFile' = [inputFile EXCEPT ![p] = f]
  /\ metrics' = [metrics EXCEPT ![p] = Null]
  /\ UNCHANGED <<connectionStatus, isTransferring, transferProgress,
                 encryptionEnabled, keyExchangeComplete, connectionRef,
                 encryptionKeyRef, receivingFile, sendingMetrics, sendTasks,
                 keyTasks, decryptTasks, conns, downloads, arrivalLog, codec, calc>>

\* deleteFile: the Reset button.
deleteFile(p) ==
  /\ UserActs
  /\ inputFile' = [inputFile EXCEPT ![p] = Null]
  /\ metrics' = [metrics EXCEPT ![p] = Null]
  /\ UNCHANGED <<connectionStatus, isTransferring, transferProgress,
                 encryptionEnabled, keyExchangeComplete, connectionRef,
                 encryptionKeyRef, receivingFile, sendingMetrics, sendTasks,
                 keyTasks, decryptTasks, conns, downloads, arrivalLog, codec, calc>>

\* The connections of p on which a local 'close' event fires when p closes
\* them: those p has handlers on and has not closed yet.
LiveHandled(p) == {c \in ConnIds : HasHandlers(c, p) /\ p \notin conns[c].closed}

\* A plausible slip: the checkbox is not disabled while a session exists.
ToggleEncryptionAnytime(p) ==
  /\ UserActs
  /\ encryptionEnabled' = [encryptionEnabled EXCEPT ![p] = ~@]
  /\ conns' = [c \in ConnIds |->
                 [conns[c] EXCEPT !.closed = @ \cup {p}, !.q[p] = <<>>]]
  /\ IF LiveHandled(p) # {}
     THEN CloseHandler(p)
     ELSE UNCHANGED <<connectionStatus, connectionRef, encryptionKeyRef,
                      keyExchangeComplete>>
  /\ UNCHANGED <<isTransferring, transferProgress, metrics, inputFile,
                 receivingFile, sendingMetrics, sendTasks, keyTasks,
                 decryptTasks, downloads, arrivalLog, codec, calc>>

\* The Enable Encryption checkbox (enabled only while disconnected). The
\* effect [encryptionEnabled] then re-runs: its cleanup destroys the Peer,
\* which closes every connection of p, and a new Peer is created.
ToggleEncryption(p) ==
  /\ UserActs
  /\ connectionStatus[p] = "disconnected"
  /\ encryptionEnabled' = [encryptionEnabled EXCEPT ![p] = ~@]
  /\ conns' = [c \in ConnIds |->
                 [conns[c] EXCEPT !.closed = @ \cup {p}, !.q[p] = <<>>]]
  /\ IF LiveHandled(p) # {}
     THEN CloseHandler(p)
     ELSE UNCHANGED <<connectionStatus, connectionRef, encryptionKeyRef,
                      keyExchangeComplete>>
  /\ UNCHANGED <<isTransferring, transferProgress, metrics, inputFile,
                 receivingFile, sendingMetrics, sendTasks, keyTasks,
                 decryptTasks, downloads, arrivalLog, codec, calc>>

\* connectToPeer: the Connect button is shown unless connected and disabled
\* while connecting; the remote peer id typed is the other peer's.
connectToPeer(p) ==
  /\ UserActs
  /\ connectionStatus[p] = "disconnected"
  /\ connectionStatus' = [connectionStatus EXCEPT ![p] = "connecting"]
  /\ conns' = Append(conns, NewConn(p))
  /\ UNCHANGED <<isTransferring, transferProgress, metrics, encryptionEnabled,
                 keyExchangeComplete, inputFile, connectionRef,
                 encryptionKeyRef, receivingFile, sendingMetrics, sendTasks,
                 keyTasks, decryptTasks, downloads, arrivalLog, codec, calc>>

\* disconnect: the Disconnect button (connected) or Abort (connecting).
disconnect(p) ==
  /\ UserActs
  /\ connectionStatus[p] \in {"connected", "connecting"}
  /\ conns' = IF connectionRef[p] # 0
              THEN ConnClose(conns, connectionRef[p], p)
              ELSE conns
  /\ connectionRef' = [connectionRef EXCEPT ![p] = 0]
  /\ connectionStatus' = [connectionStatus EXCEPT ![p] = "disconnected"]
  /\ metrics' = [metrics EXCEPT ![p] = Null]
  /\ encryptionKeyRef' = [encryptionKeyRef EXCEPT ![p] = Null]
  /\ keyExchangeComplete' = [keyExchangeComplete EXCEPT ![p] = FALSE]
  /\ UNCHANGED <<isTransferring, transferProgress, encryptionEnabled,
                 inputFile, receivingFile, sendingMetrics, sendTasks,
                 keyTasks, decryptTasks, downloads, arrivalLog, codec, calc>>

\* --------------------------------------------------------- connection events
\* peer.on('connection') at the acceptor of connection c.
IncomingConnection(c) ==
  LET p == Other(conns[c].init) IN
  /\ ~conns[c].accepted /\ ~conns[c].failed /\ conns[c].closed = {}
  /\ conns' = [conns EXCEPT ![c].accepted = TRUE]
  /\ connectionRef' = [connectionRef EXCEPT ![p] = c]
  /\ connectionStatus' = [connectionStatus EXCEPT ![p] = "connected"]
  /\ keyTasks' = IF encryptionEnabled[p]
                 THEN [keyTasks EXCEPT ![p] = @ \cup {InitTask(c)}]
                 ELSE keyTasks
  /\ UNCHANGED <<isTransferring, transferProgress, metrics, encryptionEnabled,
                 keyExchangeComplete, inputFile, encryptionKeyRef,
                 receivingFile, sendingMetrics, sendTasks, decryptTasks,
                 downloads, arrivalLog, userActions, codec, calc>>

\* conn.on('open') at the initiator of connection c (connectToPeer).
ConnectionOpen(c) ==
  LET p == conns[c].init IN
  /\ conns[c].accepted /\ ~conns[c].opened /\ p \notin conns[c].closed
  /\ conns' = [conns EXCEPT ![c].opened = TRUE]
  /\ connectionRef' = [connectionRef EXCEPT ![p] = c]
  /\ connectionStatus' = [connectionStatus EXCEPT ![p] = "connected"]
  /\ IF encryptionEnabled[p]
     THEN /\ keyTasks' = [keyTasks EXCEPT ![p] = @ \cup {InitTask(c)}]
          /\ UNCHANGED keyExchangeComplete
     ELSE /\ keyExchangeComplete' = [keyExchangeComplete EXCEPT ![p] = TRUE]
          /\ UNCHANGED keyTasks
  /\ UNCHANGED <<isTransferring, transferProgress, metrics, encryptionEnabled,
                 inputFile, encryptionKeyRef, receivingFile, sendingMetrics,
                 sendTasks, decryptTasks, downloads, arrivalLog, userActions, codec, calc>>

\* A plausible slip: a failed attempt is retried automatically.
ConnectionErrorRetries(c) ==
  LET p == conns[c].init IN
  /\ ~conns[c].accepted /\ ~conns[c].failed /\ p \notin conns[c].closed
  /\ Len(conns) <= MaxUserActions
  /\ conns' = Append([conns EXCEPT ![c].failed = TRUE], NewConn(p))
  /\ connectionStatus' = [connectionStatus EXCEPT ![p] = "connecting"]
  /\ UNCHANGED <<isTransferring, transferProgress, metrics, encryptionEnabled,
                 keyExchangeComplete, inputFile, connectionRef,
                 encryptionKeyRef, receivingFile, sendingMetrics, sendTasks,
                 keyTasks, decryptTasks, downloads, arrivalLog, userActions, codec, calc>>

\* conn.on('error') of connectToPeer: the attempt fails before opening.
ConnectionError(c) ==
  LET p == conns[c].init IN
  /\ ~conns[c].accepted /\ ~conns[c].failed /\ p \notin conns[c].closed
  /\ conns' = [conns EXCEPT ![c].failed = TRUE]
  /\ connectionStatus' = [connectionStatus EXCEPT ![p] = "disconnected"]
  /\ UNCHANGED <<isTransferring, transferProgress, metrics, encryptionEnabled,
                 keyExchangeComplete, inputFile, connectionRef,
                 encryptionKeyRef, receivingFile, sendingMetrics, sendTasks,
                 keyTasks, decryptTasks, downloads, arrivalLog, userActions, codec, calc>>

\* conn.on('close') at p after the other side closed connection c.
ConnectionClosed(c, p) ==
  /\ Other(p) \in conns[c].closed /\ p \notin conns[c].closed
  /\ HasHandlers(c, p)
  /\ conns' = ConnClose(conns, c, p)
  /\ CloseHandler(p)
  /\ UNCHANGED <<isTransferring, transferProgress, metrics, encryptionEnabled,
                 inputFile, receivingFile, sendingMetrics, sendTasks,
                 keyTasks, decryptTasks, downloads, arrivalLog, userActions, codec, calc>>

\* ------------------------------------------------------------ key exchange
\* initializeEncryption resumes after await generateKey(): the key is stored.
KeyGenerated(p, t) ==
  /\ t \in keyTasks[p] /\ t.kind = "init" /\ t.pc = "gen"
  /\ encryptionKeyRef' = [encryptionKeyRef EXCEPT ![p] = KeyOf(p, t.conn)]
  /\ keyTasks' = [keyTasks EXCEPT ![p] = (@ \ {t}) \cup {[t EXCEPT !.pc = "export"]}]
  /\ UNCHANGED <<connectionStatus, isTransferring, transferProgress, metrics,
                 encryptionEnabled, keyExchangeComplete, inputFile,
                 connectionRef, receivingFile, sendingMetrics, sendTasks,
                 decryptTasks, conns, downloads, arrivalLog, userActions, codec, calc>>

\* A plausible slip: the key is sent but the exchange is not marked complete
\* until the other side answers.
KeyExportedAwaitsAck(p, t) ==
  /\ t \in keyTasks[p] /\ t.kind = "init" /\ t.pc = "export"
  /\ conns' = ConnSend(conns, t.conn, p,
                       [type |-> "key-exchange", keyData |-> KeyOf(p, t.conn)])
  /\ keyTasks' = [keyTasks EXCEPT ![p] = @ \ {t}]
  /\ UNCHANGED <<connectionStatus, isTransferring, transferProgress, metrics,
                 encryptionEnabled, keyExchangeComplete, inputFile, connectionRef,
                 encryptionKeyRef, receivingFile, sendingMetrics, sendTasks,
                 decryptTasks, downloads, arrivalLog, userActions, codec, calc>>

\* initializeEncryption resumes after await exportKey(key): the key is sent on
\* the connection it was called with and the exchange is marked complete.
KeyExported(p, t) ==
  /\ t \in keyTasks[p] /\ t.kind = "init" /\ t.pc = "export"
  /\ conns' = ConnSend(conns, t.conn, p,
                       [type |-> "key-exchange", keyData |-> KeyOf(p, t.conn)])
  /\ keyExchangeComplete' = [keyExchangeComplete EXCEPT ![p] = TRUE]
  /\ keyTasks' = [keyTasks EXCEPT ![p] = @ \ {t}]
  /\ UNCHANGED <<connectionStatus, isTransferring, transferProgress, metrics,
                 encryptionEnabled, inputFile, connectionRef,
                 encryptionKeyRef, receivingFile, sendingMetrics, sendTasks,
                 decryptTasks, downloads, arrivalLog, userActions, codec, calc>>

\* handleReceivedData 'key-exchange' resumes after await importKey(keyData).
KeyImported(p, t) ==
  /\ t \in keyTasks[p] /\ t.kind = "import"
  /\ encryptionKeyRef' = [encryptionKeyRef EXCEPT ![p] = t.key]
  /\ keyExchangeComplete' = [keyExchangeComplete EXCEPT ![p] = TRUE]
  /\ keyTasks' = [keyTasks EXCEPT ![p] = @ \ {t}]
  /\ UNCHANGED <<connectionStatus, isTransferring, transferProgress, metrics,
                 encryptionEnabled, inputFile, connectionRef, receivingFile,
                 sendingMetrics, sendTasks, decryptTasks, conns, downloads, arrivalLog,
                 userActions, codec, calc>>

\* ------------------------------------------------------------- encryption
\* FileEncryption.encrypt under AES-GCM: the ciphertext hides the bytes and
\* is bound to the key and the iv it was made with.
Encrypt(bytes, key, iv) == [enc |-> TRUE, bytes |-> bytes, key |-> key, iv |-> iv]

DecryptFailed == [failed |-> TRUE]

\* A plausible slip: decryption that does not authenticate the key.
DecryptAnyKey(d, key, iv) ==
  IF d.enc /\ d.iv = iv THEN PlainData(d.bytes) ELSE DecryptFailed

\* FileEncryption.decrypt: the plaintext when the tag verifies (a ciphertext,
\* the key and the iv it was made with), a rejected promise otherwise.
Decrypt(d, key, iv) ==
  IF d.enc /\ d.key = key /\ d.iv = iv THEN PlainData(d.bytes) ELSE DecryptFailed

\* ---------------------------------------------------------------- receiver
\* The receivingFile.current object allocated on 'file-start'.
NewReceivingFile(msg) ==
  [name |-> msg.fileName, size |-> msg.fileSize,
   chunks |-> NewArray(msg.totalChunks), receivedChunks |-> 0,
   totalChunks |-> msg.totalChunks, encrypted |-> msg.encrypted,
   bytesTransferred |-> 0, latencies |-> 0]

\* The metrics object handed to setMetrics when a transfer completes.
FinalMetrics(bytes, lat, encrypted) ==
  [bytesTransferred |-> bytes, latencies |-> lat, encrypted |-> encrypted,
   ended |-> TRUE]

\* A plausible slip: completion tested on the slot index instead of the count.
CompleteOnLastIndex(rf, index) == index + 1 = rf.totalChunks

\* receivedChunks === totalChunks, after the increment.
TransferComplete(rf, index) == rf.receivedChunks = rf.totalChunks

\* A plausible slip: the entity is kept after the file has been downloaded.
StoreChunkKeepsEntity(p, rf, index, chunkData, rawLen) ==
  LET rf1 == [rf EXCEPT !.chunks = ArraySet(@, index, chunkData),
                        !.receivedChunks = @ + 1,
                        !.bytesTransferred = @ + rawLen]
  IN
  /\ arrivalLog' = [arrivalLog EXCEPT ![p] = Append(@, index)]
  /\ receivingFile' = [receivingFile EXCEPT ![p] = rf1]
  /\ IF TransferComplete(rf1, index)
     THEN /\ metrics' = [metrics EXCEPT ![p] =
                FinalMetrics(rf1.bytesTransferred, rf1.latencies,
                             rf1.encrypted)]
          /\ downloads' = [downloads EXCEPT ![p] =
                Append(@, [name |-> rf1.name, bytes |-> BlobOf(rf1.chunks)])]
          /\ isTransferring' = [isTransferring EXCEPT ![p] = FALSE]
          /\ transferProgress' = [transferProgress EXCEPT ![p] = Whole(100)]
     ELSE /\ transferProgress' = [transferProgress EXCEPT ![p] =
                Percent(rf1.receivedChunks, rf1.totalChunks)]
          /\ UNCHANGED <<metrics, downloads, isTransferring>>

\* A plausible slip: the receiver counts the bytes it stores, not the bytes
\* it received.
StoreChunkCountsStored(p, rf, index, chunkData, rawLen) ==
  LET rf1 == [rf EXCEPT !.chunks = ArraySet(@, index, chunkData),
                        !.receivedChunks = @ + 1,
                        !.bytesTransferred = @ + ByteLength(chunkData)]
  IN
  /\ arrivalLog' = [arrivalLog EXCEPT ![p] = Append(@, index)]
  /\ IF TransferComplete(rf1, index)
     THEN /\ metrics' = [metrics EXCEPT ![p] =
                FinalMetrics(rf1.bytesTransferred, rf1.latencies,
                             rf1.encrypted)]
          /\ downloads' = [downloads EXCEPT ![p] =
                Append(@, [name |-> rf1.name, bytes |-> BlobOf(rf1.chunks)])]
          /\ receivingFile' = [receivingFile EXCEPT ![p] = Null]
          /\ isTransferring' = [isTransferring EXCEPT ![p] = FALSE]
          /\ transferProgress' = [transferProgress EXCEPT ![p] = Whole(100)]
     ELSE /\ receivingFile' = [receivingFile EXCEPT ![p] = rf1]
          /\ transferProgress' = [transferProgress EXCEPT ![p] =
                Percent(rf1.receivedChunks, rf1.totalChunks)]
          /\ UNCHANGED <<metrics, downloads, isTransferring>>

\* 'chunk' handler from chunks[chunkIndex] = chunkData on: store the data,
\* count it, report progress and, when the count reaches totalChunks, assemble
\* the Blob, download it and clear receivingFile. rf is receivingFile.current,
\* rawLen is data.data.byteLength.
StoreChunk(p, rf, index, chunkData, rawLen) ==
  LET rf1 == [rf EXCEPT !.chunks = ArraySet(@, index, chunkData),
                        !.receivedChunks = @ + 1,
                        !.bytesTransferred = @ + rawLen]
  IN
  /\ arrivalLog' = [arrivalLog EXCEPT ![p] = Append(@, index)]
  /\ IF TransferComplete(rf1, index)
     THEN /\ metrics' = [metrics EXCEPT ![p] =
                FinalMetrics(rf1.bytesTransferred, rf1.latencies,
                             rf1.encrypted)]
          /\ downloads' = [downloads EXCEPT ![p] =
                Append(@, [name |-> rf1.name, bytes |-> BlobOf(rf1.chunks)])]
          /\ receivingFile' = [receivingFile EXCEPT ![p] = Null]
          /\ isTransferring' = [isTransferring EXCEPT ![p] = FALSE]
          /\ transferProgress' = [transferProgress EXCEPT ![p] = Whole(100)]
     ELSE /\ receivingFile' = [receivingFile EXCEPT ![p] = rf1]
          /\ transferProgress' = [transferProgress EXCEPT ![p] =
                Percent(rf1.receivedChunks, rf1.totalChunks)]
          /\ UNCHANGED <<metrics, downloads, isTransferring>>

\* arrivalLog entry for a file-end message.
FileEndMark == 0 - 1

\* A plausible slip: file-end taken as the end of reception.
FileEndTerminates(p) ==
  /\ arrivalLog' = [arrivalLog EXCEPT ![p] = Append(@, FileEndMark)]
  /\ receivingFile' = [receivingFile EXCEPT ![p] = Null]
  /\ isTransferring' = [isTransferring EXCEPT ![p] = FALSE]
  /\ UNCHANGED <<transferProgress, metrics, downloads, decryptTasks, keyTasks>>

\* case 'file-end': break. Nothing is assigned; the arrival is logged.
HandleFileEnd(p) ==
  /\ arrivalLog' = [arrivalLog EXCEPT ![p] = Append(@, FileEndMark)]
  /\ UNCHANGED <<receivingFile, isTransferring, transferProgress,
                 metrics, downloads, decryptTasks, keyTasks>>

\* handleReceivedData(msg) at peer p, up to its first await.
handleReceivedData(p, msg) ==
  CASE msg.type = "key-exchange" ->
         /\ keyTasks' = [keyTasks EXCEPT ![p] =
               @ \cup {[kind |-> "import", key |-> msg.keyData]}]
         /\ UNCHANGED <<receivingFile, isTransferring, transferProgress,
                        metrics, downloads, arrivalLog, decryptTasks>>
    [] msg.type = "file-start" ->
         /\ receivingFile' = [receivingFile EXCEPT ![p] = NewReceivingFile(msg)]
         /\ isTransferring' = [isTransferring EXCEPT ![p] = TRUE]
         /\ transferProgress' = [transferProgress EXCEPT ![p] = Whole(0)]
         /\ arrivalLog' = [arrivalLog EXCEPT ![p] = <<>>]
         /\ UNCHANGED <<keyTasks, metrics, downloads, decryptTasks>>
    [] msg.type = "chunk" ->
         IF receivingFile[p] = Null
         THEN UNCHANGED <<receivingFile, isTransferring, transferProgress,
                          metrics, downloads, arrivalLog, decryptTasks, keyTasks>>
         ELSE LET rf == [receivingFile[p] EXCEPT !.latencies = @ + 1] IN
              IF rf.encrypted /\ encryptionKeyRef[p] # Null /\ msg.iv # Null
              THEN /\ receivingFile' = [receivingFile EXCEPT ![p] = rf]
                   /\ decryptTasks' = [decryptTasks EXCEPT ![p] =
                         @ \cup {[msg |-> msg, key |-> encryptionKeyRef[p]]}]
                   /\ UNCHANGED <<isTransferring, transferProgress, metrics,
                                  downloads, arrivalLog, keyTasks>>
              ELSE /\ StoreChunk(p, rf, msg.chunkIndex, msg.data,
                                 ByteLength(msg.data))
                   /\ UNCHANGED <<decryptTasks, keyTasks>>
    [] msg.type = "file-end" -> HandleFileEnd(p)

RemoveAt(seq, k) == [j \in 1..(Len(seq) - 1) |-> IF j < k THEN seq[j] ELSE seq[j + 1]]

\* conn.on('data') at p for the k-th message in flight to p on connection c.
DeliverAt(c, p, k) ==
  /\ HasHandlers(c, p) /\ p \notin conns[c].closed
  /\ k \in 1..Len(conns[c].q[p])
  /\ conns' = [conns EXCEPT ![c].q[p] = RemoveAt(@, k)]
  /\ handleReceivedData(p, conns[c].q[p][k])
  /\ UNCHANGED <<connectionStatus, encryptionEnabled, keyExchangeComplete,
                 inputFile, connectionRef, encryptionKeyRef, sendingMetrics,
                 sendTasks, userActions, codec, calc>>

\* Reliable ordered channel: the oldest message in flight is delivered.
Deliver(c, p) == DeliverAt(c, p, 1)

\* A channel that keeps file-start and file-end in place but lets a chunk
\* overtake the chunks sent before it.
DeliverUnordered(c, p, k) ==
  /\ k \in 1..Len(conns[c].q[p])
  /\ \/ k = 1
     \/ \A j \in 1..k : conns[c].q[p][j].type = "chunk"
  /\ DeliverAt(c, p, k)

\* A plausible slip: a chunk that fails to decrypt aborts the inbound transfer.
ChunkDecryptedAbortsOnFailure(p, t) ==
  LET plain == Decrypt(t.msg.data, t.key, t.msg.iv) IN
  /\ t \in decryptTasks[p]
  /\ decryptTasks' = [decryptTasks EXCEPT ![p] = @ \ {t}]
  /\ IF receivingFile[p] = Null
     THEN UNCHANGED <<receivingFile, isTransferring, transferProgress,
                      metrics, downloads, arrivalLog>>
     ELSE IF plain = DecryptFailed
     THEN /\ receivingFile' = [receivingFile EXCEPT ![p] = Null]
          /\ isTransferring' = [isTransferring EXCEPT ![p] = FALSE]
          /\ UNCHANGED <<transferProgress, metrics, downloads, arrivalLog>>
     ELSE StoreChunk(p, receivingFile[p], t.msg.chunkIndex, plain,
                     ByteLength(t.msg.data))
  /\ UNCHANGED <<connectionStatus, encryptionEnabled, keyExchangeComplete,
                 inputFile, connectionRef, encryptionKeyRef, sendingMetrics,
                 sendTasks, keyTasks, conns, userActions, codec, calc>>

\* The 'chunk' handler resumes after await FileEncryption.decrypt: on failure
\* it returns; on success it stores the plaintext in whatever
\* receivingFile.current is by then (a TypeError ends it when that is null).
ChunkDecrypted(p, t) ==
  LET plain == Decrypt(t.msg.data, t.key, t.msg.iv) IN
  /\ t \in decryptTasks[p]
  /\ decryptTasks' = [decryptTasks EXCEPT ![p] = @ \ {t}]
  /\ IF plain = DecryptFailed \/ receivingFile[p] = Null
     THEN UNCHANGED <<receivingFile, isTransferring, transferProgress,
                      metrics, downloads, arrivalLog>>
     ELSE StoreChunk(p, receivingFile[p], t.msg.chunkIndex, plain,
                     ByteLength(t.msg.data))
  /\ UNCHANGED <<connectionStatus, encryptionEnabled, keyExchangeComplete,
                 inputFile, connectionRef, encryptionKeyRef, sendingMetrics,
                 sendTasks, keyTasks, conns, userActions, codec, calc>>

\* ------------------------------------------------------------------ sender
\* disabled= of the Send button.
SendButtonDisabled(p) ==
  \/ inputFile[p] = Null
  \/ connectionStatus[p] # "connected"
  \/ isTransferring[p]
  \/ (encryptionEnabled[p] /\ ~keyExchangeComplete[p])

\* The two early returns at the top of sendFile.
SendFileRejects(p) ==
  \/ inputFile[p] = Null
  \/ connectionRef[p] = 0
  \/ connectionStatus[p] # "connected"
  \/ (encryptionEnabled[p] /\ ~keyExchangeComplete[p])

\* A plausible slip: the busy flag is raised before the checks return.
EarlyReturnAfterFlag(p) ==
  /\ isTransferring' = [isTransferring EXCEPT ![p] = TRUE]
  /\ UNCHANGED <<connectionStatus, transferProgress, metrics,
                 encryptionEnabled, keyExchangeComplete, inputFile,
                 connectionRef, encryptionKeyRef, receivingFile,
                 sendingMetrics, sendTasks, keyTasks, decryptTasks, conns,
                 downloads, arrivalLog, userActions, codec, calc>>

\* What a rejected send does: return (after the alert), nothing assigned.
EarlyReturn(p) == UNCHANGED vars

NewSendingMetrics(encrypted) ==
  [bytesTransferred |-> 0, latencies |-> 0, encrypted |-> encrypted,
   ended |-> FALSE]

\* An activation of sendFile: the file and the encryptionEnabled value its
\* closure holds, where it is suspended (pc), its loop index i, totalChunks,
\* the encrypted chunk it awaits, and what it has sent so far.
NewSendTask(p) ==
  [file |-> inputFile[p], enc |-> encryptionEnabled[p], pc |-> "read",
   i |-> 0, total |-> 0, pending |-> Null, emitted |-> <<>>]

\* A click on Send: nothing when the button is disabled or sendFile returns
\* early; otherwise sendFile runs up to await inputFile.arrayBuffer().
ClickSend(p) ==
  IF SendButtonDisabled(p) \/ SendFileRejects(p)
  THEN EarlyReturn(p)
  ELSE /\ UserActs
       /\ isTransferring' = [isTransferring EXCEPT ![p] = TRUE]
       /\ transferProgress' = [transferProgress EXCEPT ![p] = Whole(0)]
       /\ sendingMetrics' = [sendingMetrics EXCEPT ![p] =
             NewSendingMetrics(encryptionEnabled[p])]
       /\ sendTasks' = [sendTasks EXCEPT ![p] = Append(@, NewSendTask(p))]
       /\ UNCHANGED <<connectionStatus, metrics, encryptionEnabled,
                      keyExchangeComplete, inputFile, connectionRef,
                      encryptionKeyRef, receivingFile, keyTasks,
                      decryptTasks, conns, downloads, arrivalLog, codec, calc>>

\* What one synchronous run of sendFile reads and assigns: the connections,
\* its own activation t, sendingMetrics.current, and three pieces of state.
SendCtx(p, k) ==
  [cs |-> conns, t |-> sendTasks[p][k], sm |-> sendingMetrics[p],
   prog |-> transferProgress[p], isT |-> isTransferring[p], m |-> metrics[p]]

\* A plausible slip: the catch block logs the error and leaves the flag set.
CaughtKeepsFlag(x) == [x EXCEPT !.t.pc = "failed"]

\* catch (error): setIsTransferring(false).
Caught(x) == [x EXCEPT !.t.pc = "failed", !.isT = FALSE]

\* connectionRef.current.send(msg): a TypeError when the ref is null.
RefSend(p, x, msg) ==
  IF connectionRef[p] = 0
  THEN Caught(x)
  ELSE [x EXCEPT !.cs = ConnSend(@, connectionRef[p], p, msg),
                 !.t.emitted = Append(@, msg)]

FileStartMsg(t) ==
  [type |-> "file-start", fileName |-> t.file.name,
   fileSize |-> Len(t.file.bytes), totalChunks |-> t.total,
   encrypted |-> t.enc]

ChunkMsg(t, data, iv) ==
  [type |-> "chunk", data |-> data, chunkIndex |-> t.i,
   totalChunks |-> t.total, fileName |-> t.file.name,
   fileSize |-> Len(t.file.bytes), iv |-> iv]

FileEndMsg(t) == [type |-> "file-end", fileName |-> t.file.name]

\* The rest of a loop iteration once chunkData and iv are known: send the
\* chunk, add its length, report progress, then await the 10 ms timeout.
SendChunk(p, x, data, iv) ==
  LET y == RefSend(p, x, ChunkMsg(x.t, data, iv)) IN
  IF y.t.pc = "failed" THEN y
  ELSE [y EXCEPT !.sm.bytesTransferred = @ + ByteLength(data),
                 !.prog = Percent(x.t.i + 1, x.t.total),
                 !.t.pc = "pace", !.t.pending = Null]

\* A plausible slip: the transfer is finished without sending file-end.
FinishSendNoEnd(p, x) ==
  [x EXCEPT !.sm.ended = TRUE, !.m = [x.sm EXCEPT !.ended = TRUE],
            !.isT = FALSE, !.t.pc = "done"]

\* After the loop: file-end, endTime and throughput, setMetrics, Idle.
FinishSend(p, x) ==
  LET y == RefSend(p, x, FileEndMsg(x.t)) IN
  IF y.t.pc = "failed" THEN y
  ELSE [y EXCEPT !.sm.ended = TRUE, !.m = [x.sm EXCEPT !.ended = TRUE],
                 !.isT = FALSE, !.t.pc = "done"]

\* The iv of crypto.getRandomValues: a value no other encryption uses.
FreshIv(p, k, i) == [by |-> p, task |-> k, i |-> i]

\* The loop test i < totalChunks and the body up to its first await.
LoopFrom(p, k, x) ==
  IF x.t.i < x.t.total
  THEN LET chunkData == ChunkSlice(x.t.file.bytes, x.t.i, CHUNK_SIZE) IN
       IF x.t.enc /\ encryptionKeyRef[p] # Null
       THEN [x EXCEPT !.t.pc = "encrypt",
                      !.t.pending = Encrypt(chunkData, encryptionKeyRef[p],
                                            FreshIv(p, k, x.t.i))]
       ELSE SendChunk(p, x, PlainData(chunkData), Null)
  ELSE FinishSend(p, x)

\* A plausible slip: one transfer entity for both directions, dropped when
\* the send ends.
SendApplySharedEntity(p, k, x) ==
  /\ conns' = x.cs
  /\ sendTasks' = [sendTasks EXCEPT ![p][k] = x.t]
  /\ sendingMetrics' = [sendingMetrics EXCEPT ![p] = x.sm]
  /\ transferProgress' = [transferProgress EXCEPT ![p] = x.prog]
  /\ isTransferring' = [isTransferring EXCEPT ![p] = x.isT]
  /\ metrics' = [metrics EXCEPT ![p] = x.m]
  /\ receivingFile' = IF x.t.pc \in {"done", "failed"}
                      THEN [receivingFile EXCEPT ![p] = Null]
                      ELSE receivingFile
  /\ UNCHANGED <<connectionStatus, encryptionEnabled, keyExchangeComplete,
                 inputFile, connectionRef, encryptionKeyRef,
                 keyTasks, decryptTasks, downloads, arrivalLog, userActions, codec, calc>>

\* Assign what a synchronous run of activation k of p produced.
SendApply(p, k, x) ==
  /\ conns' = x.cs
  /\ sendTasks' = [sendTasks EXCEPT ![p][k] = x.t]
  /\ sendingMetrics' = [sendingMetrics EXCEPT ![p] = x.sm]
  /\ transferProgress' = [transferProgress EXCEPT ![p] = x.prog]
  /\ isTransferring' = [isTransferring EXCEPT ![p] = x.isT]
  /\ metrics' = [metrics EXCEPT ![p] = x.m]
  /\ UNCHANGED <<connectionStatus, encryptionEnabled, keyExchangeComplete,
                 inputFile, connectionRef, encryptionKeyRef, receivingFile,
                 keyTasks, decryptTasks, downloads, arrivalLog, userActions, codec, calc>>

\* sendFile resumes after await inputFile.arrayBuffer(): totalChunks,
\* file-start, and the loop up to its first await.
SendAfterRead(p, k) ==
  /\ k \in 1..Len(sendTasks[p]) /\ sendTasks[p][k].pc = "read"
  /\ LET x0 == SendCtx(p, k)
         x1 == [x0 EXCEPT !.t.total =
                   TotalChunks(Len(x0.t.file.bytes), CHUNK_SIZE)]
         x2 == RefSend(p, x1, FileStartMsg(x1.t))
     IN  SendApply(p, k, IF x2.t.pc = "failed" THEN x2 ELSE LoopFrom(p, k, x2))

\* sendFile resumes after await FileEncryption.encrypt.
SendAfterEncrypt(p, k) ==
  /\ k \in 1..Len(sendTasks[p]) /\ sendTasks[p][k].pc = "encrypt"
  /\ LET x == SendCtx(p, k)
     IN  SendApply(p, k, SendChunk(p, x, x.t.pending, x.t.pending.iv))

\* sendFile resumes after the pacing timeout: i++ and the next iteration.
SendAfterPace(p, k) ==
  /\ k \in 1..Len(sendTasks[p]) /\ sendTasks[p][k].pc = "pace"
  /\ LET x == SendCtx(p, k)
     IN  SendApply(p, k, LoopFrom(p, k, [x EXCEPT !.t.i = @ + 1]))

\* ------------------------------------------------------------ specification
Next ==
  \/ \E p \in Peers : \E f \in Files(p) : handleFileChange(p, f)
  \/ \E p \in Peers : deleteFile(p)
  \/ \E p \in Peers : ToggleEncryption(p)
  \/ \E p \in Peers : connectToPeer(p)
  \/ \E p \in Peers : disconnect(p)
  \/ \E c \in ConnIds : IncomingConnection(c)
  \/ \E c \in ConnIds : ConnectionOpen(c)
  \/ \E c \in ConnIds : ConnectionError(c)
  \/ \E c \in ConnIds : \E p \in Peers : ConnectionClosed(c, p)
  \/ \E p \in Peers : \E t \in keyTasks[p] : KeyGenerated(p, t)
  \/ \E p \in Peers : \E t \in keyTasks[p] : KeyExported(p, t)
  \/ \E p \in Peers : \E t \in keyTasks[p] : KeyImported(p, t)
  \/ \E c \in ConnIds : \E p \in Peers : Deliver(c, p)
  \/ \E p \in Peers : \E t \in decryptTasks[p] : ChunkDecrypted(p, t)
  \/ \E p \in Peers : ClickSend(p)
  \/ \E p \in Peers : \E k \in 1..Len(sendTasks[p]) : SendAfterRead(p, k)
  \/ \E p \in Peers : \E k \in 1..Len(sendTasks[p]) : SendAfterEncrypt(p, k)
  \/ \E p \in Peers : \E k \in 1..Len(sendTasks[p]) : SendAfterPace(p, k)

Spec == Init /\ [][Next]_vars

\* A session from A to B: peer B's user has switched encryption off, peer
\* A's has it on or off and has selected a file (or none) before anyone
\* connects; then A connects, A sends, and either user disconnects.
InitSession ==
  /\ \E encA \in BOOLEAN : \E f \in Files("A") \cup {Null} :
        InitConfigured([p \in Peers |-> IF p = "A" THEN encA ELSE FALSE],
                       [p \in Peers |-> IF p = "A" THEN f ELSE Null])
  /\ codec = NoCodec /\ calc = NoCalc

NextSession ==
  \/ connectToPeer("A")
  \/ \E p \in Peers : disconnect(p)
  \/ \E c \in ConnIds : IncomingConnection(c)
  \/ \E c \in ConnIds : ConnectionOpen(c)
  \/ \E c \in ConnIds : ConnectionError(c)
  \/ \E c \in ConnIds : \E p \in Peers : ConnectionClosed(c, p)
  \/ \E p \in Peers : \E t \in keyTasks[p] : KeyGenerated(p, t)
  \/ \E p \in Peers : \E t \in keyTasks[p] : KeyExported(p, t)
  \/ \E p \in Peers : \E t \in keyTasks[p] : KeyImported(p, t)
  \/ \E c \in ConnIds : \E p \in Peers : Deliver(c, p)
  \/ \E p \in Peers : \E t \in decryptTasks[p] : ChunkDecrypted(p, t)
  \/ \E p \in Peers : ClickSend(p)
  \/ \E p \in Peers : \E k \in 1..Len(sendTasks[p]) : SendAfterRead(p, k)
  \/ \E p \in Peers : \E k \in 1..Len(sendTasks[p]) : SendAfterEncrypt(p, k)
  \/ \E p \in Peers : \E k \in 1..Len(sendTasks[p]) : SendAfterPace(p, k)

SpecSession == InitSession /\ [][NextSession]_vars

\* The session specification with the scheduling of the event loop: a
\* resolved promise (arrayBuffer, encrypt) and an expired timer resume the
\* sendFile activation that awaits them.
SendFairness ==
  \A p \in Peers : \A k \in 1..MaxUserActions :
    /\ WF_vars(SendAfterRead(p, k))
    /\ WF_vars(SendAfterEncrypt(p, k))
    /\ WF_vars(SendAfterPace(p, k))

SpecSessionFair == SpecSession /\ SendFairness

\* The state both peers are in once each user has switched encryption off,
\* selected the file files[p] (or none), A has connected to B and the
\* connection has opened: the acceptor never sets keyExchangeComplete.
InitPlainConnected(files) ==
  /\ connectionStatus = [p \in Peers |-> "connected"]
  /\ isTransferring = [p \in Peers |-> FALSE]
  /\ transferProgress = [p \in Peers |-> Whole(0)]
  /\ metrics = [p \in Peers |-> Null]
  /\ encryptionEnabled = [p \in Peers |-> FALSE]
  /\ keyExchangeComplete = [p \in Peers |-> p = "A"]
  /\ inputFile = files
  /\ connectionRef = [p \in Peers |-> 1]
  /\ encryptionKeyRef = [p \in Peers |-> Null]
  /\ receivingFile = [p \in Peers |-> Null]
  /\ sendingMetrics = [p \in Peers |-> Null]
  /\ sendTasks = [p \in Peers |-> <<>>]
  /\ keyTasks = [p \in Peers |-> {}]
  /\ decryptTasks = [p \in Peers |-> {}]
  /\ conns = <<[NewConn("A") EXCEPT !.accepted = TRUE, !.opened = TRUE]>>
  /\ downloads = [p \in Peers |-> <<>>]
  /\ arrivalLog = [p \in Peers |-> <<>>]
  /\ userActions = 0

\* Both users send over one open connection without encryption, the channel
\* reliable and ordered.
InitDuplex ==
  /\ \E fa \in LongFiles("A") : \E fb \in Files("B") \cup {Null} :
        InitPlainConnected([p \in Peers |-> IF p = "A" THEN fa ELSE fb])
  /\ codec = NoCodec /\ calc = NoCalc

NextDuplex ==
  \/ \E p \in Peers : ClickSend(p)
  \/ \E p \in Peers : \E k \in 1..Len(sendTasks[p]) : SendAfterRead(p, k)
  \/ \E p \in Peers : \E k \in 1..Len(sendTasks[p]) : SendAfterPace(p, k)
  \/ \E c \in ConnIds : \E p \in Peers : Deliver(c, p)

SpecDuplex == InitDuplex /\ [][NextDuplex]_vars

\* Both users have a file of length MaxLen selected and send it over one open
\* connection without encryption; each peer handles the other's messages
\* while its own sendFile is suspended.
InitInterleaved ==
  /\ InitPlainConnected([p \in Peers |-> FileOf(p, MaxLen)])
  /\ codec = NoCodec /\ calc = NoCalc

SpecInterleaved == InitInterleaved /\ [][NextDuplex]_vars

\* Peer A sends to B without encryption over a channel that reorders chunks.
InitUnordered ==
  /\ \E fa \in LongFiles("A") :
        InitPlainConnected([p \in Peers |-> IF p = "A" THEN fa ELSE Null])
  /\ codec = NoCodec /\ calc = NoCalc

NextUnordered ==
  \/ \E p \in Peers : ClickSend(p)
  \/ \E p \in Peers : \E k \in 1..Len(sendTasks[p]) : SendAfterRead(p, k)
  \/ \E p \in Peers : \E k \in 1..Len(sendTasks[p]) : SendAfterPace(p, k)
  \/ \E c \in ConnIds : \E p \in Peers :
        \E k \in 1..Len(conns[c].q[p]) : DeliverUnordered(c, p, k)

SpecUnordered == InitUnordered /\ [][NextUnordered]_vars

\* ---------------------------------------------- encrypted session specification
\* The state reached once A, with encryption on and a file selected, has
\* connected to B, with encryption off, and A's key has been generated, sent
\* and imported by B. From there A sends, either user disconnects, and A
\* connects again.
InitEncryptedConnected ==
  /\ \E f \in Files("A") :
       /\ connectionStatus = [p \in Peers |-> "connected"]
       /\ isTransferring = [p \in Peers |-> FALSE]
       /\ transferProgress = [p \in Peers |-> Whole(0)]
       /\ metrics = [p \in Peers |-> Null]
       /\ encryptionEnabled = [p \in Peers |-> p = "A"]
       /\ keyExchangeComplete = [p \in Peers |-> TRUE]
       /\ inputFile = [p \in Peers |-> IF p = "A" THEN f ELSE Null]
       /\ connectionRef = [p \in Peers |-> 1]
       /\ encryptionKeyRef = [p \in Peers |-> KeyOf("A", 1)]
       /\ receivingFile = [p \in Peers |-> Null]
       /\ sendingMetrics = [p \in Peers |-> Null]
       /\ sendTasks = [p \in Peers |-> <<>>]
       /\ keyTasks = [p \in Peers |-> {}]
       /\ decryptTasks = [p \in Peers |-> {}]
       /\ conns = <<[NewConn("A") EXCEPT !.accepted = TRUE, !.opened = TRUE]>>
       /\ downloads = [p \in Peers |-> <<>>]
       /\ arrivalLog = [p \in Peers |-> <<>>]
       /\ userActions = 0
  /\ codec = NoCodec /\ calc = NoCalc

SpecEncrypted == InitEncryptedConnected /\ [][NextSession]_vars

\* -------------------------------------------------- connection specification
\* Connecting, disconnecting and the encryption setting, from the state after
\* construction: both users toggle encryption and disconnect, A's user
\* connects, keys are exchanged, and no file is sent.
NextConnect ==
  \/ \E p \in Peers : ToggleEncryption(p)
  \/ connectToPeer("A")
  \/ \E p \in Peers : disconnect(p)
  \/ \E c \in ConnIds : IncomingConnection(c)
  \/ \E c \in ConnIds : ConnectionOpen(c)
  \/ \E c \in ConnIds : ConnectionError(c)
  \/ \E c \in ConnIds : \E p \in Peers : ConnectionClosed(c, p)
  \/ \E p \in Peers : \E t \in keyTasks[p] : KeyGenerated(p, t)
  \/ \E p \in Peers : \E t \in keyTasks[p] : KeyExported(p, t)
  \/ \E p \in Peers : \E t \in keyTasks[p] : KeyImported(p, t)
  \/ \E c \in ConnIds : \E p \in Peers : Deliver(c, p)

SpecConnect == Init /\ [][NextConnect]_vars

\* ---------------------------------------------------- receiver specification
\* The messages a remote peer can put on the connection without encryption:
\* file-start for up to MaxSlots chunks, a chunk for any slot with one of two
\* contents, and file-end.
InboundFileStart(total) ==
  [type |-> "file-start", fileName |-> 100 + total, fileSize |-> total,
   totalChunks |-> total, encrypted |-> FALSE]

InboundChunk(index, v) ==
  [type |-> "chunk", data |-> PlainData(<<v>>), chunkIndex |-> index,
   totalChunks |-> MaxSlots, fileName |-> 100, fileSize |-> MaxSlots,
   iv |-> Null]

InboundMsgs ==
  {InboundFileStart(total) : total \in 0..MaxSlots}
  \cup {InboundChunk(index, v) : index \in 0..(MaxSlots - 1), v \in 1..2}
  \cup {[type |-> "file-end", fileName |-> 100]}

\* Peer B is connected without encryption and any sequence of at most
\* MaxInbound messages is in flight to it; conn.on('data') then handles them
\* in order.
InitReceiver ==
  /\ \E n \in 0..MaxInbound : \E inbound \in [1..n -> InboundMsgs] :
       /\ connectionStatus = [p \in Peers |-> "connected"]
       /\ isTransferring = [p \in Peers |-> FALSE]
       /\ transferProgress = [p \in Peers |-> Whole(0)]
       /\ metrics = [p \in Peers |-> Null]
       /\ encryptionEnabled = [p \in Peers |-> FALSE]
       /\ keyExchangeComplete = [p \in Peers |-> p = "A"]
       /\ inputFile = [p \in Peers |-> Null]
       /\ connectionRef = [p \in Peers |-> 1]
       /\ encryptionKeyRef = [p \in Peers |-> Null]
       /\ receivingFile = [p \in Peers |-> Null]
       /\ sendingMetrics = [p \in Peers |-> Null]
       /\ sendTasks = [p \in Peers |-> <<>>]
       /\ keyTasks = [p \in Peers |-> {}]
       /\ decryptTasks = [p \in Peers |-> {}]
       /\ conns = <<[NewConn("A") EXCEPT !.accepted = TRUE, !.opened = TRUE,
                                         !.q["B"] = inbound]>>
       /\ downloads = [p \in Peers |-> <<>>]
       /\ arrivalLog = [p \in Peers |-> <<>>]
       /\ userActions = 0
  /\ codec = NoCodec /\ calc = NoCalc

NextReceiver == \E c \in ConnIds : \E p \in Peers : Deliver(c, p)

SpecReceiver == InitReceiver /\ [][NextReceiver]_vars

\* ---------------------------------------------------- metrics specification
\* [...latencies].sort((a, b) => a - b): ascending numeric order; position r
\* of the result holds the value v with fewer than r values below it and at
\* least r values not above it.
SortAsc(seq) ==
  LET n == Len(seq)
      values == {seq[j] : j \in 1..n}
      Below(v) == Cardinality({j \in 1..n : seq[j] < v})
      NotAbove(v) == Cardinality({j \in 1..n : seq[j] <= v})
  IN  [r \in 1..n |-> CHOOSE v \in values : Below(v) < r /\ r <= NotAbove(v)]

\* Math.floor(sorted.length * 0.95) and Math.floor(sorted.length * 0.99): for
\* every length up to 200000 the double product floors to (n * pct) div 100.
FloorPct(n, pct) == (n * pct) \div 100

\* A plausible slip: clamp the index and read the element.
ClampedElement(sorted, index) ==
  IF index + 1 > Len(sorted) THEN sorted[Len(sorted)] ELSE sorted[index + 1]

\* sorted[index] || sorted[sorted.length - 1]: the last element is taken when
\* sorted[index] is undefined and also when it is 0, which is falsy.
ElementOrLast(sorted, index) ==
  IF index + 1 > Len(sorted) \/ sorted[index + 1] = 0
  THEN sorted[Len(sorted)]
  ELSE sorted[index + 1]

\* reduce((a, b) => a + b, 0): the sum of the values, here added by halves.
RECURSIVE SumOf(_)
SumOf(seq) ==
  IF Len(seq) = 0 THEN 0
  ELSE IF Len(seq) = 1 THEN seq[1]
  ELSE LET half == Len(seq) \div 2 IN
       SumOf(SubSeq(seq, 1, half)) + SumOf(SubSeq(seq, half + 1, Len(seq)))

\* calculatePercentiles(latencies); avg is kept as the fraction sum / n.
calculatePercentiles(latencies) ==
  IF Len(latencies) = 0
  THEN [p95 |-> 0, p99 |-> 0, avg |-> Whole(0)]
  ELSE LET sorted == SortAsc(latencies) IN
       [p95 |-> ElementOrLast(sorted, FloorPct(Len(sorted), 95)),
        p99 |-> ElementOrLast(sorted, FloorPct(Len(sorted), 99)),
        avg |-> [num |-> SumOf(sorted), den |-> Len(sorted)]]

\* What a JavaScript division by zero gives: x / 0 for x > 0, and 0 / 0.
Infinity == [infinite |-> TRUE]

NaN == [nan |-> TRUE]

\* A plausible slip: the duration taken in milliseconds.
ThroughputPerMs(bytes, startTime, endTime) ==
  IF endTime = startTime
  THEN IF bytes = 0 THEN NaN ELSE Infinity
  ELSE [mib |-> [num |-> bytes, den |-> MiB],
        secs |-> [num |-> endTime - startTime, den |-> 1]]

\* duration = (endTime - startTime) / 1000 and
\* throughput = (bytesTransferred / (1024 * 1024)) / duration, kept as the
\* two fractions; division by a zero duration is JavaScript's.
Throughput(bytes, startTime, endTime) ==
  IF endTime = startTime
  THEN IF bytes = 0 THEN NaN ELSE Infinity
  ELSE [mib |-> [num |-> bytes, den |-> MiB],
        secs |-> [num |-> endTime - startTime, den |-> 1000]]

\* Latency lists: every list of at most MaxShortList values in 0..2, and the
\* lists of up to MaxLatencies values made of k values hi followed by values
\* lo < hi (unsorted unless k is 0 or the length).
ShortLists == UNION {[1..n -> 0..2] : n \in 0..MaxShortList}

StepLists ==
  {[j \in 1..n |-> IF j <= k THEN lh[2] ELSE lh[1]] :
     n \in 0..MaxLatencies, k \in 0..MaxLatencies,
     lh \in {<<0, 1>>, <<0, 5>>, <<1, 2>>}}

LatencyLists == ShortLists \cup StepLists

\* The latencies of a transfer of ManyLatencies chunks, in order of arrival:
\* one of 2 ms, then k of 0 ms (handled in the millisecond of the
\* timestamp), then the others of 1 ms.
ManyLists ==
  {[j \in 1..ManyLatencies |-> IF j = 1 THEN 2 ELSE IF j <= k + 1 THEN 0 ELSE 1] :
     k \in (ManyLatencies - MaxLatencies)..(ManyLatencies - 1)}

\* Byte counts and durations: small ones, and 1 MiB in 1 s, 10 MiB in 2 s.
ByteCounts == 0..MaxBytes \cup {MiB, 10 * MiB}

\* A call of calculatePercentiles on any list.
PercentileInputs ==
  {[phase |-> "latencies", latencies |-> l] : l \in LatencyLists \cup ManyLists}

\* A receiver in the handler of the chunk that completes its transfer:
\* startTime was taken on file-start, one latency was pushed per chunk (this
\* one included), bytes were counted, and Date.now() has advanced by 0 or more
\* milliseconds since file-start.
ReceiverAtCompletion ==
  {[phase |-> "receiving", bytes |-> b, startTime |-> 0, now |-> e,
    latencies |-> l] :
     b \in ByteCounts, e \in 0..MaxElapsedMs \cup {1000, 2000},
     l \in LatencyLists \ {<<>>}}

\* A sender leaving its chunk loop: every one of its chunks was followed by
\* the 10 ms pause, so Date.now() has advanced by at least that.
SenderAtCompletion ==
  {[phase |-> "sending", bytes |-> b, startTime |-> 0,
    now |-> (IF b = 0 THEN 0 ELSE PaceMs) + e] :
     b \in ByteCounts, e \in 0..MaxElapsedMs \cup {990, 1990}}

InitMetrics ==
  /\ InitConfigured([p \in Peers |-> TRUE], [p \in Peers |-> Null])
  /\ codec = NoCodec
  /\ calc \in PercentileInputs \cup ReceiverAtCompletion \cup SenderAtCompletion

\* calculatePercentiles is applied to the list.
ApplyPercentiles ==
  /\ calc.phase = "latencies"
  /\ calc' = [phase |-> "percentiles", latencies |-> calc.latencies,
              result |-> calculatePercentiles(calc.latencies)]
  /\ UNCHANGED <<peerVars, codec>>

\* 'chunk' handler at receivedChunks === totalChunks: endTime, throughput and
\* the percentiles are put in the metrics.
ReceiverFinalize ==
  /\ calc.phase = "receiving"
  /\ LET percentiles == calculatePercentiles(calc.latencies) IN
     calc' = [phase |-> "received", bytes |-> calc.bytes,
              startTime |-> calc.startTime, endTime |-> calc.now,
              latencies |-> calc.latencies,
              throughput |-> Throughput(calc.bytes, calc.startTime, calc.now),
              p95Latency |-> percentiles.p95,
              p99Latency |-> percentiles.p99,
              averageLatency |-> percentiles.avg]
  /\ UNCHANGED <<peerVars, codec>>

\* sendFile after file-end: endTime and throughput are put in the metrics.
SenderFinalize ==
  /\ calc.phase = "sending"
  /\ calc' = [phase |-> "sent", bytes |-> calc.bytes,
              startTime |-> calc.startTime, endTime |-> calc.now,
              throughput |-> Throughput(calc.bytes, calc.startTime, calc.now)]
  /\ UNCHANGED <<peerVars, codec>>

NextMetrics == ApplyPercentiles \/ ReceiverFinalize \/ SenderFinalize

SpecMetrics == InitMetrics /\ [][NextMetrics]_vars

\* -------------------------------------------------- decryption specification
\* A ciphertext altered in transit: its tag verifies under no key.
Altered(d) == [d EXCEPT !.key = [by |-> "nobody", conn |-> 0]]

\* The key B holds, the key of some other session, and two ivs.
SessionKey == KeyOf("A", 1)

ForeignKey == KeyOf("A", 2)

\* Chunk data a remote peer can send under an encrypted file-start: an empty
\* and a one-byte chunk encrypted with the session key, a chunk encrypted with
\* another key, and an altered ciphertext.
CipherData ==
  {Encrypt(<<>>, SessionKey, FreshIv("A", 1, 0)),
   Encrypt(<<7>>, SessionKey, FreshIv("A", 1, 0)),
   Encrypt(<<7>>, ForeignKey, FreshIv("A", 1, 0)),
   Altered(Encrypt(<<7>>, SessionKey, FreshIv("A", 1, 0)))}

CipherChunks ==
  {[type |-> "chunk", data |-> d, chunkIndex |-> index,
    totalChunks |-> MaxCipherSlots, fileName |-> 100,
    fileSize |-> MaxCipherSlots, iv |-> iv] :
     d \in CipherData, index \in 0..(MaxCipherSlots - 1),
     iv \in {FreshIv("A", 1, 0), FreshIv("A", 1, 1)}}

\* Peer B is connected, holds the session key, and an encrypted file-start
\* followed by at most MaxCipherMsgs chunk messages is in flight to it.
InitDecrypt ==
  /\ \E total \in 1..MaxCipherSlots : \E n \in 0..MaxCipherMsgs :
     \E inbound \in [1..n -> CipherChunks] :
       /\ connectionStatus = [p \in Peers |-> "connected"]
       /\ isTransferring = [p \in Peers |-> FALSE]
       /\ transferProgress = [p \in Peers |-> Whole(0)]
       /\ metrics = [p \in Peers |-> Null]
       /\ encryptionEnabled = [p \in Peers |-> p = "A"]
       /\ keyExchangeComplete = [p \in Peers |-> TRUE]
       /\ inputFile = [p \in Peers |-> Null]
       /\ connectionRef = [p \in Peers |-> 1]
       /\ encryptionKeyRef = [p \in Peers |-> SessionKey]
       /\ receivingFile = [p \in Peers |-> Null]
       /\ sendingMetrics = [p \in Peers |-> Null]
       /\ sendTasks = [p \in Peers |-> <<>>]
       /\ keyTasks = [p \in Peers |-> {}]
       /\ decryptTasks = [p \in Peers |-> {}]
       /\ conns = <<[NewConn("A") EXCEPT
                       !.accepted = TRUE, !.opened = TRUE,
                       !.q["B"] = <<[type |-> "file-start", fileName |-> 100,
                                     fileSize |-> total, totalChunks |-> total,
                                     encrypted |-> TRUE]>> \o inbound]>>
       /\ downloads = [p \in Peers |-> <<>>]
       /\ arrivalLog = [p \in Peers |-> <<>>]
       /\ userActions = 0
  /\ codec = NoCodec /\ calc = NoCalc

NextDecrypt ==
  \/ \E c \in ConnIds : \E p \in Peers : Deliver(c, p)
  \/ \E p \in Peers : \E t \in decryptTasks[p] : ChunkDecrypted(p, t)

SpecDecrypt == InitDecrypt /\ [][NextDecrypt]_vars

\* ------------------------------------------- decryption with a send under way
\* As the decryption specification, with a file selected by B's user, who
\* sends it (in plaintext: B has encryption off) while the inbound messages
\* are handled.
InitDecryptSending ==
  /\ \E total \in 1..MaxCipherSlots : \E n \in 0..MaxCipherMsgs :
     \E inbound \in [1..n -> CipherChunks] : \E f \in Files("B") :
       /\ connectionStatus = [p \in Peers |-> "connected"]
       /\ isTransferring = [p \in Peers |-> FALSE]
       /\ transferProgress = [p \in Peers |-> Whole(0)]
       /\ metrics = [p \in Peers |-> Null]
       /\ encryptionEnabled = [p \in Peers |-> p = "A"]
       /\ keyExchangeComplete = [p \in Peers |-> TRUE]
       /\ inputFile = [p \in Peers |-> IF p = "B" THEN f ELSE Null]
       /\ connectionRef = [p \in Peers |-> 1]
       /\ encryptionKeyRef = [p \in Peers |-> SessionKey]
       /\ receivingFile = [p \in Peers |-> Null]
       /\ sendingMetrics = [p \in Peers |-> Null]
       /\ sendTasks = [p \in Peers |-> <<>>]
       /\ keyTasks = [p \in Peers |-> {}]
       /\ decryptTasks = [p \in Peers |-> {}]
       /\ conns = <<[NewConn("A") EXCEPT
                       !.accepted = TRUE, !.opened = TRUE,
                       !.q["B"] = <<[type |-> "file-start", fileName |-> 100,
                                     fileSize |-> total, totalChunks |-> total,
                                     encrypted |-> TRUE]>> \o inbound]>>
       /\ downloads = [p \in Peers |-> <<>>]
       /\ arrivalLog = [p \in Peers |-> <<>>]
       /\ userActions = 0
  /\ codec = NoCodec /\ calc = NoCalc

NextDecryptSending ==
  \/ \E c \in ConnIds : Deliver(c, "B")
  \/ \E t \in decryptTasks["B"] : ChunkDecrypted("B", t)
  \/ ClickSend("B")
  \/ \E k \in 1..Len(sendTasks["B"]) : SendAfterRead("B", k)
  \/ \E k \in 1..Len(sendTasks["B"]) : SendAfterPace("B", k)

SpecDecryptSending == InitDecryptSending /\ [][NextDecryptSending]_vars

\* ------------------------------------------- two connections to one peer
\* Peer B has accepted connection 1 and a remote peer has made connection 2
\* to it, which peer.on('connection') then accepts while connection 1 is
\* still open. A file-start and chunk messages are in flight to B on
\* connection 1, and chunk messages on connection 2 (sent before it opened,
\* PeerJS buffers them); no encryption.
InitTwoConnections ==
  /\ \E total \in 1..MaxSlots :
     \E n \in 0..MaxPerConn : \E first \in [1..n -> InboundMsgs] :
     \E m \in 1..MaxPerConn : \E second \in [1..m -> InboundMsgs] :
       /\ \A j \in 1..n : first[j].type = "chunk"
       /\ \A j \in 1..m : second[j].type = "chunk"
       /\ connectionStatus = [p \in Peers |-> "connected"]
       /\ isTransferring = [p \in Peers |-> FALSE]
       /\ transferProgress = [p \in Peers |-> Whole(0)]
       /\ metrics = [p \in Peers |-> Null]
       /\ encryptionEnabled = [p \in Peers |-> FALSE]
       /\ keyExchangeComplete = [p \in Peers |-> p = "A"]
       /\ inputFile = [p \in Peers |-> Null]
       /\ connectionRef = [p \in Peers |-> 1]
       /\ encryptionKeyRef = [p \in Peers |-> Null]
       /\ receivingFile = [p \in Peers |-> Null]
       /\ sendingMetrics = [p \in Peers |-> Null]
       /\ sendTasks = [p \in Peers |-> <<>>]
       /\ keyTasks = [p \in Peers |-> {}]
       /\ decryptTasks = [p \in Peers |-> {}]
       /\ conns = <<[NewConn("A") EXCEPT
                       !.accepted = TRUE, !.opened = TRUE,
                       !.q["B"] = <<InboundFileStart(total)>> \o first],
                    [NewConn("A") EXCEPT !.q["B"] = second]>>
       /\ downloads = [p \in Peers |-> <<>>]
       /\ arrivalLog = [p \in Peers |-> <<>>]
       /\ userActions = 0
  /\ codec = NoCodec /\ calc = NoCalc

NextTwoConnections ==
  \/ \E c \in ConnIds : IncomingConnection(c)
  \/ \E c \in ConnIds : Deliver(c, "B")

SpecTwoConnections == InitTwoConnections /\ [][NextTwoConnections]_vars

\* ------------------------------------------- a file-start during decryption
\* As the decryption specification, with a second encrypted file-start, for
\* another file, in flight behind the chunks of the first transfer and
\* followed by at most one chunk of its own.
RestartFileStart(name, total) ==
  [type |-> "file-start", fileName |-> name, fileSize |-> total,
   totalChunks |-> total, encrypted |-> TRUE]

RestartChunks ==
  {[type |-> "chunk", data |-> Encrypt(<<8>>, SessionKey, FreshIv("A", 2, index)),
    chunkIndex |-> index, totalChunks |-> MaxCipherSlots, fileName |-> 101,
    fileSize |-> MaxCipherSlots, iv |-> FreshIv("A", 2, index)] :
     index \in 0..(MaxCipherSlots - 1)}

InitDecryptRestart ==
  /\ \E total \in 1..MaxCipherSlots : \E n \in 1..MaxCipherMsgs :
     \E first \in [1..n -> CipherChunks] :
     \E again \in 1..MaxCipherSlots : \E m \in 0..1 :
     \E second \in [1..m -> RestartChunks] :
       /\ connectionStatus = [p \in Peers |-> "connected"]
       /\ isTransferring = [p \in Peers |-> FALSE]
       /\ transferProgress = [p \in Peers |-> Whole(0)]
       /\ metrics = [p \in Peers |-> Null]
       /\ encryptionEnabled = [p \in Peers |-> p = "A"]
       /\ keyExchangeComplete = [p \in Peers |-> TRUE]
       /\ inputFile = [p \in Peers |-> Null]
       /\ connectionRef = [p \in Peers |-> 1]
       /\ encryptionKeyRef = [p \in Peers |-> SessionKey]
       /\ receivingFile = [p \in Peers |-> Null]
       /\ sendingMetrics = [p \in Peers |-> Null]
       /\ sendTasks = [p \in Peers |-> <<>>]
       /\ keyTasks = [p \in Peers |-> {}]
       /\ decryptTasks = [p \in Peers |-> {}]
       /\ conns = <<[NewConn("A") EXCEPT
                       !.accepted = TRUE, !.opened = TRUE,
                       !.q["B"] = <<RestartFileStart(100, total)>> \o first
                                  \o <<RestartFileStart(101, again)>> \o second]>>
       /\ downloads = [p \in Peers |-> <<>>]
       /\ arrivalLog = [p \in Peers |-> <<>>]
       /\ userActions = 0
  /\ codec = NoCodec /\ calc = NoCalc

SpecDecryptRestart == InitDecryptRestart /\ [][NextDecrypt]_vars

\* ------------------------------------------------------ codec specification
\* The chunk codec on its own: a payload of n bytes is split with chunk size
\* c as sendFile's loop does, the slices are stored in index order in the
\* array the receiver allocates on file-start, and the Blob is assembled.
CodecPayload(n) == [j \in 1..n |-> j]

CodecStart(n, c) ==
  [phase |-> IF TotalChunks(n, c) = 0 THEN "store" ELSE "split",
   payload |-> CodecPayload(n), c |-> c, i |-> 0, parts |-> <<>>,
   slots |-> NewArray(TotalChunks(n, c)), out |-> <<>>]

InitCodec ==
  /\ InitConfigured([p \in Peers |-> TRUE], [p \in Peers |-> Null])
  /\ \E n \in 0..MaxCodecLen : \E c \in 1..MaxChunk : codec = CodecStart(n, c)
  /\ calc = NoCalc

\* One iteration of sendFile's loop: the slice for index i.
CodecSplit ==
  /\ codec.phase = "split"
  /\ codec.i < TotalChunks(Len(codec.payload), codec.c)
  /\ codec' = [codec EXCEPT
        !.parts = Append(@, ChunkSlice(codec.payload, codec.i, codec.c)),
        !.i = IF codec.i + 1 = TotalChunks(Len(codec.payload), codec.c)
              THEN 0 ELSE codec.i + 1,
        !.phase = IF codec.i + 1 = TotalChunks(Len(codec.payload), codec.c)
                  THEN "store" ELSE "split"]
  /\ UNCHANGED <<peerVars, calc>>

\* The 'chunk' handler's chunks[chunkIndex] = chunkData for the next slice.
CodecStore ==
  /\ codec.phase = "store"
  /\ codec.i < Len(codec.parts)
  /\ codec' = [codec EXCEPT
        !.slots = ArraySet(@, codec.i, PlainData(codec.parts[codec.i + 1])),
        !.i = codec.i + 1]
  /\ UNCHANGED <<peerVars, calc>>

\* new Blob(chunks) once every slice is stored.
CodecAssemble ==
  /\ codec.phase = "store"
  /\ codec.i = Len(codec.parts)
  /\ codec' = [codec EXCEPT !.out = BlobOf(codec.slots), !.phase = "done"]
  /\ UNCHANGED <<peerVars, calc>>

NextCodec == CodecSplit \/ CodecStore \/ CodecAssemble

SpecCodec == InitCodec /\ [][NextCodec]_vars

\* ------------------------------------------------------------------ claims
\* ceil(n / c), defined without TotalChunks: the least m with m * c >= n.
CeilDiv(n, c) == CHOOSE m \in 0..n : m * c >= n /\ (m = 0 \/ (m - 1) * c < n)

RECURSIVE SumLen(_)
SumLen(parts) == IF parts = <<>> THEN 0 ELSE Len(Head(parts)) + SumLen(Tail(parts))

AllFiles == LongFiles("A") \cup LongFiles("B") \cup Files("A") \cup Files("B")

\* The bytes of the file a user selected under this name.
BytesOfName(name) == (CHOOSE f \in AllFiles : f.name = name).bytes

\* C1: for every payload of n >= 0 bytes and every chunk size c >= 1,
\* splitting the payload as sendFile does and assembling the receiver's slots
\* in index order gives back the payload, byte for byte.
C1_SplitAssembleRoundTrip ==
  codec.phase = "done" => codec.out = codec.payload

\* A payload of several chunks, the last one short, has been assembled.
C1_Witness ==
  /\ codec.phase = "done"
  /\ Len(codec.parts) >= 3
  /\ Len(codec.payload) % codec.c # 0
  /\ codec.out = codec.payload

\* All messages in flight and all sendFile activations are finished.
Quiescent ==
  /\ \A c \in ConnIds : \A p \in Peers : conns[c].q[p] = <<>>
  /\ \A p \in Peers : \A k \in 1..Len(sendTasks[p]) : sendTasks[p][k].pc = "done"
  /\ \A p \in Peers : decryptTasks[p] = {}

\* C2: on an open connection, without encryption and with ordered delivery,
\* every transfer the sender starts (an empty file included) is completed by
\* the receiver: once everything sent has been handled, each file sent has
\* been handed to the download sink and the receiver is Idle again.
C2_EveryTransferCompletes ==
  Quiescent =>
    \A q \in Peers :
      /\ receivingFile[q] = Null
      /\ ~isTransferring[q]
      /\ Len(downloads[q]) = Len(sendTasks[Other(q)])

\* C3: the payload delivered is the concatenation of the slots in index
\* order whatever order the chunks of the transfer arrived in: every file
\* handed to the download sink has the bytes of the file that was sent.
C3_IndexOrderAssembly ==
  \A q \in Peers : \A k \in 1..Len(downloads[q]) :
    downloads[q][k].bytes = BytesOfName(downloads[q][k].name)

\* A three-chunk transfer completed after its chunks arrived as 2, 0, 1.
C3_Witness ==
  /\ receivingFile["B"] = Null
  /\ Len(downloads["B"]) >= 1
  /\ arrivalLog["B"] = <<2, 0, 1>>

\* C4: an inbound transfer is assembled only when every slot in
\* [0, totalChunks) is filled, repeated chunk indices included: no file
\* handed to the download sink contains an unwritten slot.
C4_NoAssemblyWithUnfilledSlot ==
  \A q \in Peers : \A k \in 1..Len(downloads[q]) :
    \A j \in 1..Len(downloads[q][k].bytes) :
      downloads[q][k].bytes[j] # HoleBytes[1]

\* sendFile activations of p that are still running.
ActiveSends(p) ==
  {k \in 1..Len(sendTasks[p]) : sendTasks[p][k].pc \in {"read", "encrypt", "pace"}}

\* C5: at most one outbound transfer is active per session at any time, also
\* while the peer is receiving a file.
C5_OneOutboundTransfer ==
  \A p \in Peers : Cardinality(ActiveSends(p)) <= 1

NotConnected(p) == connectionStatus[p] # "connected" \/ connectionRef[p] = 0

KeyExchangeIncomplete(p) == encryptionEnabled[p] /\ ~keyExchangeComplete[p]

\* C6: a send requested while the session is not connected, or while
\* encryption is enabled and the key exchange is not complete, is rejected
\* without mutating state: no message is emitted and isTransferring,
\* transferProgress and the sending metrics stay as they were.
C6_RejectedSendMutatesNothing ==
  [][\A p \in Peers :
       (ClickSend(p) /\ (NotConnected(p) \/ KeyExchangeIncomplete(p)))
         => UNCHANGED <<conns, sendTasks, isTransferring, transferProgress,
                        sendingMetrics, metrics>>]_vars

\* A has a file and is connected but its key exchange is not complete, so
\* its Send is rejected; the rejected request leaves this very state.
C6_Witness ==
  /\ inputFile["A"] # Null
  /\ connectionStatus["A"] = "connected" /\ connectionRef["A"] # 0
  /\ KeyExchangeIncomplete("A")
  /\ ~isTransferring["A"]

\* Type and chunk index of a message, and of the messages an activation sent.
Shape(msg) ==
  [type |-> msg.type, idx |-> IF msg.type = "chunk" THEN msg.chunkIndex ELSE 0 - 1]

Emitted(t) == [j \in 1..Len(t.emitted) |-> Shape(t.emitted[j])]

\* file-start, chunks 0 .. ceil(n / CHUNK_SIZE) - 1 ascending, file-end.
ExpectedEmission(t) ==
  <<[type |-> "file-start", idx |-> 0 - 1]>>
  \o [i \in 1..CeilDiv(Len(t.file.bytes), CHUNK_SIZE) |->
        [type |-> "chunk", idx |-> i - 1]]
  \o <<[type |-> "file-end", idx |-> 0 - 1]>>

IsPrefix(a, b) == Len(a) <= Len(b) /\ a = SubSeq(b, 1, Len(a))

KeyExchangeSettled(c) ==
  /\ \A p \in Peers :
       /\ encryptionEnabled[p] /\ connectionRef[p] = c
       /\ keyExchangeComplete[p] /\ keyTasks[p] = {}
       /\ \A j \in 1..Len(conns[c].q[p]) : conns[c].q[p][j].type # "key-exchange"
  /\ conns[c].accepted /\ conns[c].opened /\ conns[c].closed = {}

\* C8: after the key exchange between two peers with encryption enabled both
\* hold the same key, so a chunk encrypted by one decrypts on the other.
C8_SameKeyAfterExchange ==
  \A c \in ConnIds :
    KeyExchangeSettled(c) =>
      /\ encryptionKeyRef["A"] # Null
      /\ encryptionKeyRef["A"] = encryptionKeyRef["B"]
      /\ \A p \in Peers :
           Decrypt(Encrypt(<<1>>, encryptionKeyRef[p], FreshIv(p, 1, 0)),
                   encryptionKeyRef[Other(p)], FreshIv(p, 1, 0)) = PlainData(<<1>>)

\* C9: split cuts a payload of n bytes into ceil(n / chunkSize) contiguous
\* slices in order, all of length chunkSize except the last, which has
\* between 1 and chunkSize bytes; the lengths add up to n.
C9_SplitPartitions ==
  codec.phase \in {"store", "done"} =>
    LET n == Len(codec.payload)
        c == codec.c
        parts == codec.parts
    IN  /\ Len(parts) = CeilDiv(n, c)
        /\ \A k \in 1..Len(parts) :
             /\ Len(parts[k]) = IF k < Len(parts) THEN c ELSE n - (k - 1) * c
             /\ Len(parts[k]) >= 1 /\ Len(parts[k]) <= c
             /\ \A j \in 1..Len(parts[k]) : parts[k][j] = codec.payload[(k - 1) * c + j]
        /\ SumLen(parts) = n
        /\ n = c * 10 => Len(parts) = 10
        /\ n = c * 10 + 1 => Len(parts) = 11
        /\ (0 < n /\ n < c) => Len(parts) = 1

\* A payload of 10 chunks and one byte has been split into 11 slices.
C9_Witness ==
  /\ codec.phase = "done"
  /\ Len(codec.payload) = codec.c * 10 + 1
  /\ Len(codec.parts) = 11

\* C10: sending a zero-byte file produces exactly one chunk of length 0:
\* file-start says totalChunks = 1 and one chunk message with empty data is
\* sent.
C10_ZeroByteFileOneChunk ==
  \A p \in Peers : \A k \in 1..Len(sendTasks[p]) :
    LET t == sendTasks[p][k] IN
    (Len(t.file.bytes) = 0 /\ t.pc = "done") =>
      /\ \A j \in 1..Len(t.emitted) :
           t.emitted[j].type = "file-start" => t.emitted[j].totalChunks = 1
      /\ Cardinality({j \in 1..Len(t.emitted) :
                        /\ t.emitted[j].type = "chunk"
                        /\ ByteLength(t.emitted[j].data) = 0}) = 1

\* The indices of the slots of a chunks array that have been written.
FilledSlots(chunks) == {j \in 1..Len(chunks) : chunks[j] # Hole}

\* The chunks array with slot index holding value and nothing else changed.
SlotReplaced(chunks, index, value) ==
  [j \in 1..Len(chunks) |-> IF j = index + 1 THEN value ELSE chunks[j]]

\* The oldest message in flight to p on connection c is a chunk for a slot of
\* the current inbound transfer that is already filled.
RewritesFilledSlot(c, p) ==
  /\ conns[c].q[p] # <<>>
  /\ Head(conns[c].q[p]).type = "chunk"
  /\ receivingFile[p] # Null
  /\ Head(conns[c].q[p]).chunkIndex + 1 \in FilledSlots(receivingFile[p].chunks)

\* C11: a second chunk message for an already filled index i leaves the set
\* of filled slots as it was, puts its data in slot i (last write wins) and
\* leaves the content of every other slot unchanged, also when that message
\* is the one that completes the transfer.
C11_SlotWriteIdempotent ==
  [][\A c \in ConnIds : \A p \in Peers :
       (Deliver(c, p) /\ RewritesFilledSlot(c, p)) =>
         LET msg == Head(conns[c].q[p])
             expected == SlotReplaced(receivingFile[p].chunks, msg.chunkIndex,
                                      msg.data)
         IN  IF receivingFile'[p] # Null
             THEN /\ receivingFile'[p].chunks = expected
                  /\ FilledSlots(receivingFile'[p].chunks)
                       = FilledSlots(receivingFile[p].chunks)
             ELSE /\ Len(downloads'[p]) = Len(downloads[p]) + 1
                  /\ downloads'[p][Len(downloads'[p])].bytes = BlobOf(expected)]_vars

\* Slot 0 of a three-slot transfer has been written twice, the second time
\* with other data, and the other slots are still unwritten.
C11_Witness ==
  /\ receivingFile["B"] # Null
  /\ arrivalLog["B"] = <<0, 0>>
  /\ receivingFile["B"].chunks = <<PlainData(<<2>>), Hole, Hole>>

\* C12: a peer with encryption disabled skips the key exchange and is Ready
\* at once, whether it connected or accepted: while it is connected its
\* key-exchange completion flag is set and it has sent no key-exchange
\* message on its connection.
C12_PlainSessionReadyAtOnce ==
  \A p \in Peers :
    (~encryptionEnabled[p] /\ connectionStatus[p] = "connected"
       /\ connectionRef[p] # 0) =>
      /\ keyExchangeComplete[p]
      /\ \A j \in 1..Len(conns[connectionRef[p]].q[Other(p)]) :
           conns[connectionRef[p]].q[Other(p)][j].type # "key-exchange"

\* C13: file-end is informational only. Handling it leaves the inbound
\* transfer entity, isTransferring, the progress, the metrics and the
\* downloads as they were; and after a file-end that came before all chunks,
\* the chunk that brings the count to totalChunks still completes the
\* transfer.
C13_FileEndInformational ==
  [][\A c \in ConnIds : \A p \in Peers :
       (Deliver(c, p) /\ conns[c].q[p] # <<>>) =>
         LET msg == Head(conns[c].q[p]) IN
         /\ msg.type = "file-end" =>
              /\ receivingFile'[p] = receivingFile[p]
              /\ isTransferring'[p] = isTransferring[p]
              /\ transferProgress'[p] = transferProgress[p]
              /\ metrics'[p] = metrics[p]
              /\ downloads'[p] = downloads[p]
         /\ ( /\ msg.type = "chunk"
              /\ receivingFile[p] # Null
              /\ \E j \in 1..Len(arrivalLog[p]) : arrivalLog[p][j] = FileEndMark
              /\ receivingFile[p].receivedChunks + 1 = receivingFile[p].totalChunks )
            => /\ receivingFile'[p] = Null
               /\ ~isTransferring'[p]
               /\ Len(downloads'[p]) = Len(downloads[p]) + 1]_vars

\* A two-chunk transfer was completed by chunk 1 although file-end had
\* arrived between chunk 0 and chunk 1.
C13_Witness ==
  /\ receivingFile["B"] = Null
  /\ ~isTransferring["B"]
  /\ Len(downloads["B"]) = 1
  /\ arrivalLog["B"] = <<0, FileEndMark, 1>>

\* C14: the encryption setting cannot change mid-session: in a step taken
\* while the connection status is connecting or connected, encryptionEnabled
\* keeps its value.
C14_EncryptionFixedInSession ==
  [][\A p \in Peers :
       connectionStatus[p] \in {"connecting", "connected"}
         => encryptionEnabled'[p] = encryptionEnabled[p]]_vars

\* A switched encryption off, then connected; the setting has stayed off and
\* no further change is possible while the session lasts.
C14_Witness ==
  /\ connectionStatus["A"] = "connected"
  /\ ~encryptionEnabled["A"]
  /\ userActions < MaxUserActions

\* C15: a failed transfer returns the peer to Idle. Once a peer is
\* disconnected and none of its sendFile activations or chunk handlers is
\* still running, no transfer is in progress: isTransferring is false and no
\* inbound transfer entity is retained.
C15_FailedTransferReturnsToIdle ==
  \A p \in Peers :
    (connectionStatus[p] = "disconnected" /\ connectionRef[p] = 0
       /\ ActiveSends(p) = {} /\ decryptTasks[p] = {}) =>
      /\ ~isTransferring[p]
      /\ receivingFile[p] = Null

\* The k-th smallest value of a list (k from 1), without sorting it.
KthSmallest(seq, k) ==
  CHOOSE v \in {seq[j] : j \in 1..Len(seq)} :
    /\ Cardinality({j \in 1..Len(seq) : seq[j] < v}) < k
    /\ Cardinality({j \in 1..Len(seq) : seq[j] <= v}) >= k

\* C16: on a non-empty list of n latencies calculatePercentiles gives
\* p95 = sorted[floor(0.95 n)] and p99 = sorted[floor(0.99 n)] of the
\* ascending sort, the last element being taken only when the index is out
\* of bounds, and avg = the arithmetic mean; on the empty list all three are
\* 0; on a single value v all three are v.
C16_PercentilesByIndex ==
  calc.phase = "percentiles" =>
    LET l == calc.latencies
        n == Len(l)
        r == calc.result
    IN  IF n = 0
        THEN r = [p95 |-> 0, p99 |-> 0, avg |-> Whole(0)]
        ELSE /\ r.p95 = KthSmallest(l, Min((95 * n) \div 100, n - 1) + 1)
             /\ r.p99 = KthSmallest(l, Min((99 * n) \div 100, n - 1) + 1)
             /\ r.avg = [num |-> SumOf(l), den |-> n]
             /\ n = 1 => r = [p95 |-> l[1], p99 |-> l[1], avg |-> Whole(l[1])]

\* C17: at completion of a transfer of at least one byte the throughput
\* reported, by the sender and by the receiver, is a finite value greater
\* than 0, namely (bytesTransferred / 1048576) / ((endTime - startTime) /
\* 1000): 10 MiB in 2 s gives 5 and 1 MiB in 1 s gives 1.
C17_ThroughputFinitePositive ==
  (calc.phase \in {"received", "sent"} /\ calc.bytes >= 1) =>
    LET t == calc.throughput IN
    /\ t # Infinity /\ t # NaN
    /\ t.mib = [num |-> calc.bytes, den |-> 1048576]
    /\ t.secs = [num |-> calc.endTime - calc.startTime, den |-> 1000]
    /\ t.mib.num > 0 /\ t.secs.num > 0
    /\ (calc.bytes = 10 * 1048576 /\ t.secs.num = 2000) =>
          t.mib.num \div t.mib.den = 5 * (t.secs.num \div t.secs.den)
    /\ (calc.bytes = 1048576 /\ t.secs.num = 1000) =>
          t.mib.num \div t.mib.den = t.secs.num \div t.secs.den

\* The chunk of decrypt task t was encrypted with the key the handler holds
\* and the nonce its message carries.
Genuine(t) ==
  /\ t.msg.data.enc
  /\ t.msg.data.key = t.key
  /\ t.msg.data.iv = t.msg.iv

\* C18: a chunk encrypted with key k and a fresh nonce carried in its message
\* decrypts on the receiver, with the same k and that nonce, to the original
\* plaintext, an empty chunk included, and that plaintext is what is stored;
\* with another key, another nonce or an altered ciphertext decryption fails
\* and nothing is stored.
C18_EncryptionRoundTrip ==
  [][\A p \in Peers : \A t \in decryptTasks[p] :
       ChunkDecrypted(p, t) =>
         IF Genuine(t)
         THEN ( /\ receivingFile[p] # Null
                /\ t.msg.chunkIndex < receivingFile[p].totalChunks ) =>
                LET expected == SlotReplaced(receivingFile[p].chunks,
                                             t.msg.chunkIndex,
                                             PlainData(t.msg.data.bytes))
                IN  IF receivingFile'[p] # Null
                    THEN receivingFile'[p].chunks = expected
                    ELSE downloads'[p][Len(downloads'[p])].bytes = BlobOf(expected)
         ELSE /\ receivingFile'[p] = receivingFile[p]
              /\ downloads'[p] = downloads[p]]_vars

\* Of two chunks handled, the one encrypted with the session key was stored
\* as its plaintext and the other one, which failed to decrypt, was not.
C18_Witness ==
  /\ receivingFile["B"] # Null
  /\ receivingFile["B"].latencies = 2
  /\ receivingFile["B"].receivedChunks = 1
  /\ receivingFile["B"].chunks = <<PlainData(<<7>>), Hole>>
  /\ decryptTasks["B"] = {}

\* C19: in an inbound transfer whose file-start declared encrypted = true
\* every value stored in a slot is a successful decryption; the data as
\* received is never stored as if it were plaintext, and so no ciphertext
\* reaches a downloaded file.
C19_OnlyDecryptedDataStored ==
  \A p \in Peers :
    /\ (receivingFile[p] # Null /\ receivingFile[p].encrypted) =>
         \A j \in 1..Len(receivingFile[p].chunks) :
           receivingFile[p].chunks[j] # Hole => ~receivingFile[p].chunks[j].enc
    /\ \A k \in 1..Len(downloads[p]) :
         \A j \in 1..Len(downloads[p][k].bytes) :
           downloads[p][k].bytes[j] # 0 - 2

\* C20: in an outbound transfer whose file-start declares encrypted = true
\* every chunk message carries encrypted data together with its nonce; no
\* chunk is sent in plaintext, in any interleaving of the send with
\* connection open, close and key-exchange events.
C20_NoPlaintextUnderEncryptedStart ==
  \A p \in Peers : \A k \in 1..Len(sendTasks[p]) :
    LET t == sendTasks[p][k] IN
    t.enc =>
      \A j \in 1..Len(t.emitted) :
        t.emitted[j].type = "chunk" =>
          /\ t.emitted[j].data.enc
          /\ t.emitted[j].iv # Null

\* Decryption of the chunk of decrypt task t fails.
DecryptFails(t) == Decrypt(t.msg.data, t.key, t.msg.iv) = DecryptFailed

\* Some chunk of the current inbound transfer of p has failed to decrypt: more
\* chunk messages were taken in than were stored or are still being decrypted.
SomeChunkFailed(p) ==
  /\ receivingFile[p] # Null
  /\ receivingFile[p].latencies
       > receivingFile[p].receivedChunks + Cardinality(decryptTasks[p])

\* C21: when decryption of a chunk fails the handler leaves the inbound
\* transfer's slots, filled count and bytesTransferred as they were, and the
\* session goes on: the connection, its status and the messages in flight are
\* untouched, nothing is downloaded; and a chunk that decrypts after an
\* earlier one has failed is still stored and counted.
C21_DecryptFailureLeavesTransfer ==
  [][\A p \in Peers : \A t \in decryptTasks[p] :
       ChunkDecrypted(p, t) =>
         /\ DecryptFails(t) =>
              /\ receivingFile'[p] = receivingFile[p]
              /\ downloads'[p] = downloads[p]
              /\ isTransferring'[p] = isTransferring[p]
              /\ connectionStatus'[p] = connectionStatus[p]
              /\ connectionRef'[p] = connectionRef[p]
              /\ conns' = conns
         /\ (~DecryptFails(t) /\ SomeChunkFailed(p)
               /\ t.msg.chunkIndex < receivingFile[p].totalChunks) =>
              IF receivingFile'[p] # Null
              THEN /\ receivingFile'[p].receivedChunks
                        = receivingFile[p].receivedChunks + 1
                   /\ receivingFile'[p].chunks[t.msg.chunkIndex + 1]
                        = PlainData(t.msg.data.bytes)
              ELSE Len(downloads'[p]) = Len(downloads[p]) + 1]_vars

\* An altered chunk for slot 1 failed to decrypt and left the two-slot
\* transfer as it was; the genuine chunk for slot 1 was then stored.
C21_Witness ==
  /\ receivingFile["B"] # Null
  /\ receivingFile["B"].latencies = 2
  /\ receivingFile["B"].receivedChunks = 1
  /\ receivingFile["B"].chunks = <<Hole, PlainData(<<7>>)>>
  /\ receivingFile["B"].bytesTransferred = 1 + TagBytes
  /\ decryptTasks["B"] = {}
  /\ connectionStatus["B"] = "connected"

\* The chunk messages in flight to p on its connection.
ChunksInFlight(p) ==
  IF connectionRef[p] = 0 THEN 0
  ELSE Cardinality({j \in 1..Len(conns[connectionRef[p]].q[p]) :
                      conns[connectionRef[p]].q[p][j].type = "chunk"})

\* C22: once a chunk of an inbound transfer has failed to decrypt, and the
\* sender sends no more chunk messages than the transfer has slots, the
\* transfer stays incomplete: its filled count is below totalChunks, nothing
\* has been downloaded and the receiver is still Receiving (isTransferring
\* true).
C22_FailedDecryptionSticksTransfer ==
  \A p \in Peers :
    ( /\ SomeChunkFailed(p)
      /\ receivingFile[p].latencies + ChunksInFlight(p)
           <= receivingFile[p].totalChunks ) =>
      /\ receivingFile[p].receivedChunks < receivingFile[p].totalChunks
      /\ downloads[p] = <<>>
      /\ isTransferring[p]

\* C23: each side's key-exchange Ready flag is driven solely by its own local
\* action. keyExchangeComplete of p becomes true only in a step of p itself:
\* its initializeEncryption having sent the key, its import of a received
\* key, or its connection opening with encryption off. The step that sends
\* p's key marks p Ready at once, while the other peer cannot have imported
\* that key yet; no acknowledgment is awaited.
C23_ReadyByLocalActionOnly ==
  [][\A p \in Peers :
       /\ (keyExchangeComplete'[p] /\ ~keyExchangeComplete[p]) =>
            \/ \E t \in keyTasks[p] : KeyExported(p, t)
            \/ \E t \in keyTasks[p] : KeyImported(p, t)
            \/ \E c \in ConnIds :
                 ConnectionOpen(c) /\ conns[c].init = p /\ ~encryptionEnabled[p]
       /\ \A t \in keyTasks[p] :
            KeyExported(p, t) =>
              /\ keyExchangeComplete'[p]
              /\ encryptionKeyRef'[Other(p)] # KeyOf(p, t.conn)
              /\ \A u \in keyTasks'[Other(p)] :
                   u.kind = "import" => u.key # KeyOf(p, t.conn)]_vars

\* A is Ready and its send has been accepted and is in its chunk loop while B
\* has not imported A's key: the key-exchange message is still in flight or
\* its import is still pending.
C23_Witness ==
  /\ keyExchangeComplete["A"]
  /\ encryptionEnabled["A"]
  /\ isTransferring["A"]
  /\ ActiveSends("A") # {}
  /\ \E k \in ActiveSends("A") : sendTasks["A"][k].emitted # <<>>
  /\ encryptionKeyRef["A"] = KeyOf("A", 1)
  /\ encryptionKeyRef["B"] # KeyOf("A", 1)
  /\ ~keyExchangeComplete["B"]

\* C24: each file-start leads to at most one delivery to the download sink.
\* Handling file-start allocates an entity with totalChunks empty slots and
\* filled count 0 and delivers nothing; an entity comes into being only by a
\* file-start; a delivery happens only in the handling of a chunk for an
\* existing entity, is a single file, and clears the entity; and a chunk
\* handled while no entity exists leaves all receiver state unchanged.
C24_OneDeliveryPerFileStart ==
  [][\A c \in ConnIds : \A p \in Peers :
       (Deliver(c, p) /\ conns[c].q[p] # <<>>) =>
         LET msg == Head(conns[c].q[p]) IN
         /\ msg.type = "file-start" =>
              /\ receivingFile'[p] # Null
              /\ Len(receivingFile'[p].chunks) = msg.totalChunks
              /\ FilledSlots(receivingFile'[p].chunks) = {}
              /\ receivingFile'[p].receivedChunks = 0
              /\ receivingFile'[p].totalChunks = msg.totalChunks
              /\ downloads'[p] = downloads[p]
         /\ (receivingFile[p] = Null /\ receivingFile'[p] # Null) =>
              msg.type = "file-start"
         /\ downloads'[p] # downloads[p] =>
              /\ msg.type = "chunk"
              /\ receivingFile[p] # Null
              /\ receivingFile'[p] = Null
              /\ Len(downloads'[p]) = Len(downloads[p]) + 1
              /\ \A j \in 1..Len(downloads[p]) : downloads'[p][j] = downloads[p][j]
         /\ (msg.type = "chunk" /\ receivingFile[p] = Null) =>
              /\ receivingFile'[p] = Null
              /\ isTransferring'[p] = isTransferring[p]
              /\ transferProgress'[p] = transferProgress[p]
              /\ metrics'[p] = metrics[p]
              /\ downloads'[p] = downloads[p]
              /\ decryptTasks'[p] = decryptTasks[p]
              /\ keyTasks'[p] = keyTasks[p]
              /\ encryptionKeyRef'[p] = encryptionKeyRef[p]
              /\ connectionStatus'[p] = connectionStatus[p]]_vars

\* A one-chunk transfer has completed and been delivered once, the entity is
\* cleared, and a further chunk message is about to be handled with no entity.
C24_Witness ==
  /\ receivingFile["B"] = Null
  /\ Len(downloads["B"]) = 1
  /\ arrivalLog["B"] = <<0>>
  /\ conns[1].q["B"] # <<>>
  /\ Head(conns[1].q["B"]).type = "chunk"

\* C25: every accepted send eventually returns the sender to Idle: whenever a
\* peer has a sendFile activation running, later none is running and
\* isTransferring is false. An activation ends either after file-end has been
\* emitted and the metrics finalized, or through the catch block when the
\* connection reference was cleared during the send; both clear the flag.
C25_SendReturnsToIdle ==
  /\ \A p \in Peers :
       (ActiveSends(p) # {}) ~> (ActiveSends(p) = {} /\ ~isTransferring[p])
  /\ [][\A p \in Peers : \A k \in ActiveSends(p) :
          sendTasks'[p][k].pc \notin {"read", "encrypt", "pace"} =>
            /\ ~isTransferring'[p]
            /\ \/ /\ sendTasks'[p][k].pc = "done"
                  /\ sendTasks'[p][k].emitted # <<>>
                  /\ sendTasks'[p][k].emitted[Len(sendTasks'[p][k].emitted)].type
                       = "file-end"
                  /\ metrics'[p] # Null /\ metrics'[p].ended
               \/ /\ sendTasks'[p][k].pc = "failed"
                  /\ connectionRef[p] = 0]_vars

\* A's send was accepted, emitted file-start and a chunk, and ended in the
\* catch block after the user disconnected; A is Idle again.
C25_Witness ==
  /\ Len(sendTasks["A"]) = 1
  /\ sendTasks["A"][1].pc = "failed"
  /\ Len(sendTasks["A"][1].emitted) >= 2
  /\ ~isTransferring["A"]

\* What activation t emits when it resumes after the pacing delay: the chunk
\* of the next index, or file-end after the last chunk.
NextEmission(t) ==
  IF t.i + 1 < t.total
  THEN [type |-> "chunk",
        data |-> PlainData(ChunkSlice(t.file.bytes, t.i + 1, CHUNK_SIZE)),
        chunkIndex |-> t.i + 1, totalChunks |-> t.total,
        fileName |-> t.file.name, fileSize |-> Len(t.file.bytes),
        iv |-> Null]
  ELSE [type |-> "file-end", fileName |-> t.file.name]

C27_TransferConfinedToConnection ==
  [][\A c \in ConnIds : \A p \in Peers :
       (Deliver(c, p) /\ c # 1 /\ conns[1].closed = {}) =>
         /\ receivingFile'[p] = receivingFile[p]
         /\ downloads'[p] = downloads[p]
         /\ isTransferring'[p] = isTransferring[p]]_vars

InPercentRange(f, strict) ==
  /\ f.den > 0
  /\ IF strict THEN f.num > 0 ELSE f.num >= 0
  /\ f.num <= 100 * f.den

\* C29: reported progress is always a percentage within [0, 100]. In every
\* state of an inbound transfer the filled count is between 0 and
\* totalChunks and the progress reported for it, filled/total, is within
\* [0, 100]; and the progress a sender reports after sending chunk i,
\* (i + 1)/totalChunks, is within (0, 100].
C29_ProgressWithinRange ==
  \A p \in Peers :
    /\ receivingFile[p] # Null =>
         /\ receivingFile[p].receivedChunks >= 0
         /\ receivingFile[p].receivedChunks <= receivingFile[p].totalChunks
         /\ ActiveSends(p) = {} => InPercentRange(transferProgress[p], FALSE)
    /\ \A k \in 1..Len(sendTasks[p]) :
         sendTasks[p][k].pc = "pace" =>
           InPercentRange(Percent(sendTasks[p][k].i + 1, sendTasks[p][k].total),
                          TRUE)

\* C30: whenever the connection status is disconnected the session is fully
\* torn down: the connection reference is null, no session key is held and
\* keyExchangeComplete is false, in every interleaving of close, error,
\* disconnect and the asynchronous key generation and import steps.
C30_DisconnectedIsTornDown ==
  \A p \in Peers :
    connectionStatus[p] = "disconnected" =>
      /\ connectionRef[p] = 0
      /\ encryptionKeyRef[p] = Null
      /\ ~keyExchangeComplete[p]

\* C31: whenever encryption is enabled and keyExchangeComplete is true the
\* peer holds a session key: encryptionKeyRef is not null, so a send that
\* passes the key-exchange check has a key to encrypt with.
C31_ReadyImpliesKeyHeld ==
  \A p \in Peers :
    (encryptionEnabled[p] /\ keyExchangeComplete[p]) =>
      encryptionKeyRef[p] # Null

\* C32: isTransferring is true exactly when the peer has a sendFile
\* activation running or an inbound transfer entity allocated; completion
\* of an inbound transfer does not clear the flag while the peer's own send
\* is still running, nor the end of a send while an inbound transfer exists.
C32_TransferringFlagExact ==
  \A p \in Peers :
    isTransferring[p] <=> (ActiveSends(p) # {} \/ receivingFile[p] # Null)

\* C33: a file-start received while an inbound transfer is still incomplete
\* replaces it with a fresh entity (all slots empty, filled count 0, new
\* metrics) and delivers nothing; and a chunk of the replaced transfer, its
\* fileName being that of the replaced file, whose handler ends after the
\* replacement is neither stored in nor counted toward the new transfer, so
\* that the payload of the replaced transfer is never delivered.
C33_FileStartReplacesTransfer ==
  [][\A p \in Peers :
       /\ \A c \in ConnIds :
            ( /\ Deliver(c, p) /\ conns[c].q[p] # <<>>
              /\ Head(conns[c].q[p]).type = "file-start"
              /\ receivingFile[p] # Null ) =>
              /\ receivingFile'[p] = NewReceivingFile(Head(conns[c].q[p]))
              /\ FilledSlots(receivingFile'[p].chunks) = {}
              /\ receivingFile'[p].receivedChunks = 0
              /\ receivingFile'[p].bytesTransferred = 0
              /\ receivingFile'[p].latencies = 0
              /\ downloads'[p] = downloads[p]
       /\ \A t \in decryptTasks[p] :
            ( /\ ChunkDecrypted(p, t)
              /\ receivingFile[p] # Null
              /\ t.msg.fileName # receivingFile[p].name ) =>
              /\ receivingFile'[p] = receivingFile[p]
              /\ downloads'[p] = downloads[p]]_vars

\* The log holds every index 0..Len(log)-1 exactly once.
EachIndexOnce(log) ==
  \A i \in 0..(Len(log) - 1) :
    Cardinality({j \in 1..Len(log) : log[j] = i}) = 1

\* C34: byte accounting agrees end to end. In the step that completes an
\* inbound transfer at p whose chunks were each received exactly once, none
\* being dropped, the bytesTransferred the receiver reports equals the
\* bytesTransferred of the sender's only send, and when the transfer is not
\* encrypted both equal the fileSize declared in file-start.
C34_ByteAccountingAgrees ==
  [][\A p \in Peers :
       ( /\ Len(downloads'[p]) = Len(downloads[p]) + 1
         /\ Len(sendTasks[Other(p)]) = 1
         /\ EachIndexOnce(arrivalLog'[p])
         /\ metrics'[p].latencies = Len(arrivalLog'[p]) ) =>
         /\ metrics'[p].bytesTransferred
              = sendingMetrics[Other(p)].bytesTransferred
         /\ ~metrics'[p].encrypted =>
              /\ metrics'[p].bytesTransferred = receivingFile[p].size
              /\ sendingMetrics[Other(p)].bytesTransferred = receivingFile[p].size]_vars

\* B has completed an encrypted two-chunk transfer, decrypted: it reports the
\* bytes it received, ciphertext with tags, as does A, and the download is
\* the plaintext.
C34_Witness ==
  /\ Len(downloads["B"]) = 1
  /\ inputFile["A"] # Null
  /\ downloads["B"][1].bytes = inputFile["A"].bytes
  /\ arrivalLog["B"] = <<0, 1>>
  /\ metrics["B"] # Null /\ metrics["B"].encrypted
  /\ sendingMetrics["A"] # Null
  /\ metrics["B"].bytesTransferred = sendingMetrics["A"].bytesTransferred
  /\ metrics["B"].bytesTransferred = Len(inputFile["A"].bytes) + 2 * TagBytes

\* C35: for every non-empty latency list calculatePercentiles returns a p95
\* and a p99 that are elements of the input, with
\* min <= p95 <= p99 <= max and min <= avg <= max.
C35_PercentilesOrdered ==
  (calc.phase = "percentiles" /\ Len(calc.latencies) > 0) =>
    LET l == calc.latencies
        values == {l[j] : j \in 1..Len(l)}
        min == CHOOSE v \in values : \A w \in values : v <= w
        max == CHOOSE v \in values : \A w \in values : w <= v
        r == calc.result
    IN  /\ r.p95 \in values
        /\ r.p99 \in values
        /\ min <= r.p95 /\ r.p95 <= r.p99 /\ r.p99 <= max
        /\ min * r.avg.den <= r.avg.num
        /\ r.avg.num <= max * r.avg.den

\* C36: one latency sample is recorded per chunk message handled while an
\* inbound transfer exists, so the transfer never counts more filled slots
\* than it has latency samples; and at a completion where every chunk was
\* received exactly once and every handled chunk was stored (none failed
\* decryption), the number of samples put in the metrics is totalChunks.
C36_LatencyPerHandledChunk ==
  /\ [](\A p \in Peers :
          receivingFile[p] # Null =>
            receivingFile[p].latencies >= receivingFile[p].receivedChunks)
  /\ [][\A p \in Peers :
          ( /\ Len(downloads'[p]) = Len(downloads[p]) + 1
            /\ EachIndexOnce(arrivalLog'[p])
            /\ metrics'[p].latencies = Len(arrivalLog'[p]) ) =>
            metrics'[p].latencies = receivingFile[p].totalChunks]_vars
====
